---- MODULE Spec2Model ----
(***************************************************************************)
(* A model of the checkers rule engine of pycheckers                       *)
(* (src/pycheckers/checkers.py): the packed tile index, move and jump      *)
(* generation, move application, the two takeTurn implementations,         *)
(* Board.__init__ and the Board._begin game loop; and of the two peers of  *)
(* a networked game (src/pycheckers/host.py), each with a Board of its own.*)
(***************************************************************************)
EXTENDS Integers, Sequences, FiniteSets, TLC

VARIABLES
    BOARD_SIZE,   \* length of the board in tiles (module constant, fixed per run)
    kind,         \* kind[c]: "human" (Player) or "cpu" (CPUPlayer) for each colour
    tiles,        \* Board._tiles: tiles[i] is Tile._isOccupied of tile i (in a
                  \* networked game: of the hosting peer's Board)
    pieces,       \* pieces[c]: Player._pieces of colour c, a list of Piece records
    selected,     \* selected[c]: Player._selected (a piece id, or NoPiece for None)
    turnColor,    \* Board._begin: turnColor; send_move: color
    status,       \* Board._begin: status; send_move: move
    pc,           \* control point of the game loop / of the running takeTurn
    moves,        \* Player.takeTurn local: moves
    jumps,        \* Player.takeTurn / CPUPlayer.takeTurn local: jumps
    jumpedJumps,  \* Player.takeTurn local: jumpedJumps
    startTile,    \* Player.takeTurn local: startTile
    cpuPiece,     \* CPUPlayer.takeTurn local: piece (a piece id)
    winner,       \* value returned by Board._begin (NoColor while it runs)
    turnLog,      \* history: the moveTo/jumpTo calls of the latest turn
    turnStart,    \* history: what held when the latest takeTurn was called
    budget,       \* number of takeTurn calls the model still follows
    netpc,        \* networked game: netpc[c] is where the peer that plays c is
    chan,         \* networked game: chan[c] is what was sent to that peer
    peerTiles,    \* networked game: Board._tiles of the joining peer's Board
    peerPieces,   \* networked game: Player._pieces of the joining peer's Board
    recvLog,      \* history: recvLog[c] is the latest recv_move of the peer of c
    sims,         \* Board.__init__, players = 0: sims
    wins,         \* Board.__init__, players = 0: wins
    game,         \* Board.__init__, players = 0: iterations of the loop completed
    setup         \* Board.__init__: its argument players, whether the window
                  \* was made, whether ValueError was raised

vars == <<BOARD_SIZE, kind, tiles, pieces, selected, turnColor, status, pc,
          moves, jumps, jumpedJumps, startTile, cpuPiece, winner,
          turnLog, turnStart, budget, netpc, chan, peerTiles, peerPieces,
          recvLog, sims, wins, game, setup>>

\* what no step of a takeTurn changes
auxVars == <<recvLog, sims, wins, game, setup>>

netVars == <<netpc, chan, peerTiles, peerPieces>>

----------------------------------------------------------------------------
(* Bounds of the model *)

\* the simulation is followed for at most this many games
MaxSims == 3

\* a game on the 4 x 4 board is followed for at most this many takeTurn calls
MaxTurnsSmall == 10

\* a game on the 6 x 6 board is followed for at most this many takeTurn calls
MaxTurns == 6

\* a game on the 8 x 8 board is followed for at most this many takeTurn calls
MaxTurnsLarge == 4

\* the board sizes that are played (BOARD_SIZE is 8 as shipped; any even
\* number >= 4 is allowed)
BoardSizes == {4, 6, 8}

\* the values of BOARD_SIZE with which Board.__init__ is tried, allowed or not
SetupSizes == 2 .. 6

\* the values of players with which Board.__init__ is tried, allowed or not
PlayerCounts == -1 .. 3

----------------------------------------------------------------------------
(* Constants of the program *)

TILE_SIZE == 80
BLACK == "black"
RED == "red"
Colors == {BLACK, RED}
NoColor == "none"
NoPiece == -1

HALF_BOARD_SIZE == BOARD_SIZE \div 2
NumTiles == BOARD_SIZE * HALF_BOARD_SIZE
TileNums == 0 .. (NumTiles - 1)

Range(s) == {s[k] : k \in 1 .. Len(s)}

----------------------------------------------------------------------------
(* Board *)

\* x of the centre of tile k, as Board._populate lays the tiles out
locX(k) ==
    LET row == k \div HALF_BOARD_SIZE
        t   == k % HALF_BOARD_SIZE
        x0  == IF row % 2 = 0 THEN 0 ELSE TILE_SIZE
    IN  x0 + t * (TILE_SIZE * 2) + TILE_SIZE \div 2

\* y of the centre of tile k
locY(k) ==
    LET row == k \div HALF_BOARD_SIZE
    IN  (TILE_SIZE * BOARD_SIZE - row * TILE_SIZE) - TILE_SIZE \div 2

\* Python list indexing: a negative index counts from the end
getTile(tl, tilenum) ==
    tl[IF tilenum < 0 THEN tilenum + NumTiles ELSE tilenum]

\* isEdgeTile that knows only the first and the last row
isEdgeTile_rowsOnly(tilenum) ==
    \/ tilenum < HALF_BOARD_SIZE
    \/ tilenum >= (BOARD_SIZE - 1) * HALF_BOARD_SIZE

\* isEdgeTile that takes the side columns modulo HALF_BOARD_SIZE
isEdgeTile_halfMod(tilenum) ==
    \/ tilenum < HALF_BOARD_SIZE
    \/ tilenum >= (BOARD_SIZE - 1) * HALF_BOARD_SIZE
    \/ tilenum % HALF_BOARD_SIZE = 0
    \/ tilenum % HALF_BOARD_SIZE = HALF_BOARD_SIZE - 1

isEdgeTile(tilenum) ==
    \/ tilenum < HALF_BOARD_SIZE
    \/ tilenum >= (BOARD_SIZE - 1) * HALF_BOARD_SIZE
    \/ tilenum % BOARD_SIZE = 0
    \/ tilenum % BOARD_SIZE = BOARD_SIZE - 1

Opp(color) == IF color = BLACK THEN RED ELSE BLACK

\* Board.getOpponent(color).tiles
oppTiles(ps, color) == {q.tilenum : q \in Range(ps[Opp(color)])}

\* _populate that takes len(self._tiles) before the tile is appended
PopulateTiles_early ==
    [k \in 0 .. (2 * HALF_BOARD_SIZE * HALF_BOARD_SIZE - 1) |->
        \/ k <= HALF_BOARD_SIZE * (HALF_BOARD_SIZE - 1)
        \/ k > HALF_BOARD_SIZE * (HALF_BOARD_SIZE + 1)]

\* Board._populate: HALF_BOARD_SIZE times two rows of HALF_BOARD_SIZE tiles;
\* the tiles of the first and last HALF_BOARD_SIZE - 1 rows start occupied
\* (len(self._tiles) is k + 1 when tile k is appended)
PopulateTiles ==
    [k \in 0 .. (2 * HALF_BOARD_SIZE * HALF_BOARD_SIZE - 1) |->
        \/ k + 1 <= HALF_BOARD_SIZE * (HALF_BOARD_SIZE - 1)
        \/ k + 1 > HALF_BOARD_SIZE * (HALF_BOARD_SIZE + 1)]

----------------------------------------------------------------------------
(* Piece *)

\* Piece.__init__
NewPiece(color, tilenum) ==
    [id |-> tilenum, color |-> color, tilenum |-> tilenum, isKing |-> FALSE]

\* (self.location.getY() / TILE_SIZE - 0.5) % 2 == 0; the centre is an odd
\* multiple of TILE_SIZE / 2, so the quotient is exact
OddRow(tilenum) ==
    ((locY(tilenum) - TILE_SIZE \div 2) \div TILE_SIZE) % 2 = 0

\* the side-column test that knows the leftmost column only
SideColumn_left(tilenum) == tilenum % BOARD_SIZE = 0

SideColumn(tilenum) ==
    \/ tilenum % BOARD_SIZE = 0
    \/ tilenum % BOARD_SIZE = BOARD_SIZE - 1

\* _getPosMoves that keeps the neighbours of a king that do not exist
getPosMoves_unfiltered(p) ==
    LET t == p.tilenum
        H == HALF_BOARD_SIZE
    IN  IF p.isKing THEN
            IF SideColumn(t) THEN <<t - H, t + H>>
            ELSE IF OddRow(t) THEN <<t - H, t - H + 1, t + H, t + H + 1>>
            ELSE <<t - H - 1, t - H, t + H - 1, t + H>>
        ELSE IF p.color = BLACK THEN
            IF SideColumn(t) THEN <<t + H>>
            ELSE IF OddRow(t) THEN <<t + H, t + H + 1>>
            ELSE <<t + H - 1, t + H>>
        ELSE
            IF SideColumn(t) THEN <<t - H>>
            ELSE IF OddRow(t) THEN <<t - H, t - H + 1>>
            ELSE <<t - H - 1, t - H>>

getPosMoves(p) ==
    LET t == p.tilenum
        H == HALF_BOARD_SIZE
    IN  IF p.isKing THEN
            LET tempmoves ==
                    IF SideColumn(t) THEN <<t - H, t + H>>
                    ELSE IF OddRow(t) THEN <<t - H, t - H + 1, t + H, t + H + 1>>
                    ELSE <<t - H - 1, t - H, t + H - 1, t + H>>
            IN  SelectSeq(tempmoves, LAMBDA tm : tm >= 0 /\ tm < BOARD_SIZE * H)
        ELSE IF p.color = BLACK THEN
            IF SideColumn(t) THEN <<t + H>>
            ELSE IF OddRow(t) THEN <<t + H, t + H + 1>>
            ELSE <<t + H - 1, t + H>>
        ELSE
            IF SideColumn(t) THEN <<t - H>>
            ELSE IF OddRow(t) THEN <<t - H, t - H + 1>>
            ELSE <<t - H - 1, t - H>>

getMoves(p, tl) ==
    SelectSeq(getPosMoves(p), LAMBDA n : ~getTile(tl, n))

Jump(jumpedTile, endTile) == [jumpedTile |-> jumpedTile, endTile |-> endTile]

\* the Jump that getJumps builds for the neighbour n of piece p
JumpOver(p, n) ==
    IF locX(n) > locX(p.tilenum) THEN
        IF locY(n) > locY(p.tilenum)
        THEN Jump(n, p.tilenum - BOARD_SIZE + 1)
        ELSE Jump(n, p.tilenum + BOARD_SIZE + 1)
    ELSE
        IF locY(n) > locY(p.tilenum)
        THEN Jump(n, p.tilenum - BOARD_SIZE - 1)
        ELSE Jump(n, p.tilenum + BOARD_SIZE - 1)

\* getJumps that takes every occupied neighbour for an opponent's piece
getJumps_anyPiece(p, tl, ps) ==
    LET neighbors == getPosMoves(p)
        over == SelectSeq(neighbors, LAMBDA n : getTile(tl, n))
        all  == [k \in 1 .. Len(over) |-> JumpOver(p, over[k])]
    IN  SelectSeq(all, LAMBDA j : ~isEdgeTile(j.jumpedTile)
                                  /\ ~getTile(tl, j.endTile))

getJumps(p, tl, ps) ==
    LET neighbors == getPosMoves(p)
        opp  == oppTiles(ps, p.color)
        over == SelectSeq(neighbors, LAMBDA n : n \in opp)
        all  == [k \in 1 .. Len(over) |-> JumpOver(p, over[k])]
    IN  SelectSeq(all, LAMBDA j : ~isEdgeTile(j.jumpedTile)
                                  /\ ~getTile(tl, j.endTile))

\* the indices that getMoves and getJumps of piece p pass to Board.getTile:
\* getMoves every neighbour; getJumps every neighbour on which the other
\* side has a piece, and the landing tile of a jump whose jumped tile is
\* not an edge tile (`and` does not evaluate its right side otherwise)
TileArgs(p, ps) ==
    LET neighbors == Range(getPosMoves(p))
        over == {n \in neighbors : n \in oppTiles(ps, p.color)}
        ends == {JumpOver(p, n).endTile : n \in {m \in over : ~isEdgeTile(m)}}
    IN  neighbors \cup over \cup ends

\* the indices that the logged moveTo or jumpTo passed to Board.getTile
CallArgs(e) ==
    {e.from, e.to} \cup (IF e.op = "jumpTo" THEN {e.jumped} ELSE {})

\* position of the piece with identity id in the list ps[color]
IndexOf(ps, color, id) ==
    CHOOSE k \in 1 .. Len(ps[color]) : ps[color][k].id = id

PieceOf(ps, color, id) == ps[color][IndexOf(ps, color, id)]

\* the crowning test with > for >= on Black's side
ReachesBackRow_strict(color, tilenum) ==
    \/ color = BLACK /\ tilenum > HALF_BOARD_SIZE * (BOARD_SIZE - 1)
    \/ color = RED /\ tilenum < HALF_BOARD_SIZE

\* the crowning test of Piece.moveTo
ReachesBackRow(color, tilenum) ==
    \/ color = BLACK /\ tilenum >= HALF_BOARD_SIZE * (BOARD_SIZE - 1)
    \/ color = RED /\ tilenum < HALF_BOARD_SIZE

\* Piece.moveTo on the board b = [tiles, pieces]
moveTo(b, color, id, tile) ==
    LET k  == IndexOf(b.pieces, color, id)
        p  == b.pieces[color][k]
        t1 == [b.tiles EXCEPT ![p.tilenum] = FALSE]
        t2 == [t1 EXCEPT ![tile] = TRUE]
        q  == [p EXCEPT !.tilenum = tile,
                        !.isKing = p.isKing \/ ReachesBackRow(color, tile)]
    IN  [tiles |-> t2, pieces |-> [b.pieces EXCEPT ![color][k] = q]]

\* list.remove of the first piece of ps standing on tilenum, if any
RemoveFirstAt(s, tilenum) ==
    LET hits == {k \in 1 .. Len(s) : s[k].tilenum = tilenum}
    IN  IF hits = {} THEN s
        ELSE LET k == CHOOSE h \in hits : \A g \in hits : h <= g
             IN  [i \in 1 .. (Len(s) - 1) |-> IF i < k THEN s[i] ELSE s[i + 1]]

\* killPiece that removes nothing
killPiece_none(b, color, tilenum) == b

\* killPiece that removes the first piece of the list
killPiece_first(b, color, tilenum) ==
    [b EXCEPT !.pieces[color] = IF @ = <<>> THEN @ ELSE Tail(@)]

\* Player.killPiece
killPiece(b, color, tilenum) ==
    [b EXCEPT !.pieces[color] = RemoveFirstAt(b.pieces[color], tilenum)]

\* jumpTo that leaves the jumped piece in the opponent's list
jumpTo_noKill(b, color, id, jump) ==
    [moveTo(b, color, id, jump.endTile) EXCEPT !.tiles[jump.jumpedTile] = FALSE]

\* jumpTo that forgets to clear the flag of the jumped tile
jumpTo_keepsFlag(b, color, id, jump) ==
    killPiece(moveTo(b, color, id, jump.endTile), Opp(color), jump.jumpedTile)

\* Piece.jumpTo
jumpTo(b, color, id, jump) ==
    LET b1 == moveTo(b, color, id, jump.endTile)
        b2 == killPiece(b1, Opp(color), jump.jumpedTile)
    IN  [b2 EXCEPT !.tiles[jump.jumpedTile] = FALSE]

----------------------------------------------------------------------------
(* Player *)

\* _populate that gives each side two rows of men
PopulatePieces_twoRows(color) ==
    LET startTile0 == IF color = BLACK THEN 0
                      ELSE HALF_BOARD_SIZE * (BOARD_SIZE - 2)
        n == HALF_BOARD_SIZE * 2
    IN  [k \in 1 .. n |-> NewPiece(color, startTile0 + k - 1)]

\* Player._populate
PopulatePieces(color) ==
    LET startTile0 == IF color = BLACK THEN 0
                      ELSE HALF_BOARD_SIZE * (HALF_BOARD_SIZE + 1)
        n == HALF_BOARD_SIZE * (HALF_BOARD_SIZE - 1)
    IN  [k \in 1 .. n |-> NewPiece(color, startTile0 + k - 1)]

\* canJump that looks at the first piece of the list only
canJump_firstOnly(b, color) ==
    /\ b.pieces[color] # <<>>
    /\ getJumps(b.pieces[color][1], b.tiles, b.pieces) # <<>>

canJump(b, color) ==
    \E k \in 1 .. Len(b.pieces[color]) :
        getJumps(b.pieces[color][k], b.tiles, b.pieces) # <<>>

\* hasMove that forgets the jumps
hasMove_movesOnly(b, color) ==
    \E k \in 1 .. Len(b.pieces[color]) :
        getMoves(b.pieces[color][k], b.tiles) # <<>>

\* hasMove that is true of every side that has a piece
hasMove_anyPiece(b, color) == b.pieces[color] # <<>>

hasMove(b, color) ==
    \E k \in 1 .. Len(b.pieces[color]) :
        \/ getMoves(b.pieces[color][k], b.tiles) # <<>>
        \/ getJumps(b.pieces[color][k], b.tiles, b.pieces) # <<>>

----------------------------------------------------------------------------
(* Turn results and history records *)

\* a result that names the tile the piece ends on as its source tile
Result_endTile(tag, from, to, chain) ==
    [tag |-> tag,
     from |-> IF tag = "move" THEN to
              ELSE IF tag = "jump" THEN chain[Len(chain)].endTile ELSE from,
     to |-> to, chain |-> chain]

Result(tag, from, to, chain) ==
    [tag |-> tag, from |-> from, to |-> to, chain |-> chain]

Loss == Result("loss", -1, -1, <<>>)          \* "loss"
NoResult == Result("None", -1, -1, <<>>)      \* CPUPlayer.takeTurn returns None
NoStatus == Result("", -1, -1, <<>>)          \* status = "" before the first turn

\* getPiece without its filter: the first piece of the list
getPiece_first(b, color, tilenum) ==
    IF b.pieces[color] = <<>> THEN NoPiece ELSE b.pieces[color][1].id

\* Player.getPiece: the first piece of color on tilenum (its id), or None
getPiece(b, color, tilenum) ==
    LET at == {k \in 1 .. Len(b.pieces[color]) :
                  b.pieces[color][k].tilenum = tilenum}
    IN  IF at = {} THEN NoPiece
        ELSE b.pieces[color][CHOOSE k \in at : \A g \in at : k <= g].id

RECURSIVE jumpAll(_, _, _, _)
\* Piece.doMove, tj a list of jumps: jumpTo for each of them in order
jumpAll(b, color, id, tj) ==
    IF tj = <<>> THEN b
    ELSE jumpAll(jumpTo(b, color, id, Head(tj)), color, id, Tail(tj))

\* Piece.doMove with the second component of a turn result
doMove(b, color, id, result) ==
    IF result.tag = "move"
    THEN moveTo(b, color, id, result.to)
    ELSE jumpAll(b, color, id, result.chain)

\* start_server / start_client run, rather than Board._begin
Networked == netpc[BLACK] # "off"

\* the Board on which the player of color takes its turns: in a networked
\* game the host plays Black on its Board, the joiner Red on its own
BoardOf(color) ==
    IF Networked /\ color = RED
    THEN [tiles |-> peerTiles, pieces |-> peerPieces]
    ELSE [tiles |-> tiles, pieces |-> pieces]

\* the Board of the running takeTurn
Cur == BoardOf(turnColor)

\* the Board of the player of color becomes b
SetBoard(color, b) ==
    IF Networked /\ color = RED
    THEN /\ peerTiles' = b.tiles
         /\ peerPieces' = b.pieces
         /\ UNCHANGED <<tiles, pieces>>
    ELSE /\ tiles' = b.tiles
         /\ pieces' = b.pieces
         /\ UNCHANGED <<peerTiles, peerPieces>>

\* the ids of the pieces of color that have a legal jump on board b
Jumpers(b, color) ==
    {q.id : q \in {r \in Range(b.pieces[color]) :
                      getJumps(r, b.tiles, b.pieces) # <<>>}}

\* the ids of the pieces of color that have a legal move or a legal jump
Movers(b, color) ==
    {q.id : q \in {r \in Range(b.pieces[color]) :
                      \/ getMoves(r, b.tiles) # <<>>
                      \/ getJumps(r, b.tiles, b.pieces) # <<>>}}

StartRecord(b, color) ==
    [color    |-> color,
     movers   |-> Movers(b, color),
     jumpers  |-> Jumpers(b, color),
     oppCount |-> Len(b.pieces[Opp(color)])]

NoStart ==
    [color |-> NoColor, movers |-> {}, jumpers |-> {}, oppCount |-> 0]

\* a jumpTo call of piece id on board b, as the history records it
HopEntry(b, color, id, jump) ==
    LET p == PieceOf(b.pieces, color, id)
        a == jumpTo(b, color, id, jump)
    IN  [op |-> "jumpTo", id |-> id, from |-> p.tilenum, to |-> jump.endTile,
         jumped |-> jump.jumpedTile, wasKing |-> p.isKing,
         isKing |-> PieceOf(a.pieces, color, id).isKing,
         legal |-> jump \in Range(getJumps(p, b.tiles, b.pieces))]

\* a moveTo call of piece id on board b, as the history records it
MoveEntry(b, color, id, tile) ==
    LET p == PieceOf(b.pieces, color, id)
        a == moveTo(b, color, id, tile)
    IN  [op |-> "moveTo", id |-> id, from |-> p.tilenum, to |-> tile,
         jumped |-> -1, wasKing |-> p.isKing,
         isKing |-> PieceOf(a.pieces, color, id).isKing,
         legal |-> tile \in Range(getMoves(p, b.tiles))]

----------------------------------------------------------------------------
(* Initial states *)

\* Board.__init__: players = 0 (simulation), 1 (black human, red CPU), 2
Kinds ==
    { [c \in Colors |-> "cpu"],
      [c \in Colors |-> IF c = BLACK THEN "human" ELSE "cpu"],
      [c \in Colors |-> "human"] }

\* the number of takeTurn calls for which a game is followed
TurnBudget ==
    IF BOARD_SIZE < 6 THEN MaxTurnsSmall
    ELSE IF BOARD_SIZE > 6 THEN MaxTurnsLarge ELSE MaxTurns

\* the argument players of Board.__init__ that makes these players
PlayersOf(kinds) ==
    IF kinds[BLACK] = "cpu" THEN 0 ELSE IF kinds[RED] = "cpu" THEN 1 ELSE 2

\* Board.__init__ has made the window, the tiles and the players
Built == [players |-> PlayersOf(kind), window |-> TRUE, error |-> FALSE]

\* nothing was received yet
NoRecv ==
    [outcome |-> "none", move |-> NoStatus, srcHeld |-> FALSE, legal |-> FALSE,
     killsHit |-> FALSE, before |-> <<>>]

\* the locals of takeTurn and the result of Board._begin while no turn runs
Idle ==
    /\ recvLog = [c \in Colors |-> NoRecv]
    /\ selected = [c \in Colors |-> NoPiece]
    /\ moves = <<>>
    /\ jumps = <<>>
    /\ jumpedJumps = <<>>
    /\ startTile = -1
    /\ cpuPiece = NoPiece
    /\ winner = NoColor
    /\ budget = TurnBudget

\* the simulation loop of Board.__init__ is not followed
NoSims ==
    /\ sims = 0
    /\ wins = [c \in Colors |-> 0]
    /\ game = 0

\* one process, one Board: Board._begin is about to run or runs
Local ==
    /\ pc = "loop"
    /\ setup = Built
    /\ netpc = [c \in Colors |-> "off"]
    /\ chan = [c \in Colors |-> <<>>]
    /\ peerTiles = <<>>
    /\ peerPieces = [c \in Colors |-> <<>>]

\* Board.__init__ and the first lines of Board._begin
NewGame ==
    /\ Local
    /\ tiles = PopulateTiles
    /\ pieces = [c \in Colors |-> PopulatePieces(c)]
    /\ turnColor = BLACK
    /\ status = NoStatus
    /\ turnLog = <<>>
    /\ turnStart = NoStart
    /\ Idle

Init ==
    /\ BOARD_SIZE \in BoardSizes
    /\ kind \in Kinds
    /\ NewGame
    /\ NoSims

\* A simulated game (players = 0) with BOARD_SIZE = 6 after its 20th turn,
\* Black to move.  The turns that lead here from the starting layout, as
\* <<from, to>> and <<from, <<jumped, to>>, ...>>, Black first:
\*   3-7, 12-9, 7x9-12, 13-9, 5-8, 15-13, 0-3, 9-6, 4-7, 13-10, 8x10-13,
\*   16x13-9x7-4, 2x4-7, 14-10, 7x10-14, 17x14-10, 1-4, 6x3-1, 12-15, 1x4-8
EndGame ==
    /\ Local
    /\ tiles = [k \in 0 .. 17 |-> k \in {8, 10, 15}]
    /\ pieces =
         [c \in Colors |->
            IF c = BLACK
            THEN << [id |-> 3, color |-> BLACK, tilenum |-> 15, isKing |-> TRUE] >>
            ELSE << [id |-> 13, color |-> RED, tilenum |-> 8, isKing |-> TRUE],
                    [id |-> 17, color |-> RED, tilenum |-> 10, isKing |-> FALSE] >>]
    /\ turnColor = BLACK
    /\ status = NoResult
    /\ turnLog = << [op |-> "jumpTo", id |-> 13, from |-> 1, to |-> 8,
                     jumped |-> 4, wasKing |-> TRUE, isKing |-> TRUE,
                     legal |-> TRUE] >>
    /\ turnStart = [color |-> RED, movers |-> {13, 17}, jumpers |-> {13},
                    oppCount |-> 2]
    /\ Idle

\* simulated games that are followed without a bound on their length: on the
\* smallest board from the starting layout, on the 6 x 6 board from EndGame
InitLive ==
    /\ kind = [c \in Colors |-> "cpu"]
    /\ \/ BOARD_SIZE = 4 /\ NewGame
       \/ BOARD_SIZE = 6 /\ EndGame
    /\ NoSims

----------------------------------------------------------------------------
(* Board._begin and the takeTurn methods *)

\* send_move that goes on to receive after it has sent "loss"
Send_keepsOn(color, result) ==
    /\ chan' = [chan EXCEPT ![Opp(color)] = Append(@, result)]
    /\ netpc' = [netpc EXCEPT ![color] = "recv"]

\* send_move after which the sender does not go on to receive
Send_again(color, result) ==
    /\ chan' = [chan EXCEPT ![Opp(color)] = Append(@, result)]
    /\ netpc' = [netpc EXCEPT ![color] = IF result = Loss THEN "lost" ELSE "send"]

\* send_move: the result of takeTurn is sent to the other peer; "loss" ends
\* the sender's loop, after any other result it goes on to receive
Send(color, result) ==
    /\ chan' = [chan EXCEPT ![Opp(color)] = Append(@, result)]
    /\ netpc' = [netpc EXCEPT ![color] = IF result = Loss THEN "lost" ELSE "recv"]

\* takeTurn returns result: to Board._begin, which passes the turn, or to
\* send_move, which sends it
ReturnTurn(result) ==
    /\ status' = result
    /\ IF Networked
       THEN /\ Send(turnColor, result)
            /\ pc' = "net"
            /\ turnColor' = turnColor
       ELSE /\ turnColor' = Opp(turnColor)
            /\ pc' = "loop"
            /\ UNCHANGED <<netpc, chan>>
    /\ moves' = <<>>
    /\ jumps' = <<>>
    /\ jumpedJumps' = <<>>
    /\ startTile' = -1
    /\ cpuPiece' = NoPiece

\* a game loop that does not test status
CallTurn_noExit(bounded) ==
    /\ pc = "loop"
    /\ bounded => budget > 0
    /\ budget' = IF bounded THEN budget - 1 ELSE budget
    /\ turnStart' = StartRecord(Cur, turnColor)

\* Board._begin calls takeTurn of the side to move
CallTurn(bounded) ==
    /\ pc = "loop"
    /\ status # Loss
    /\ bounded => budget > 0
    /\ budget' = IF bounded THEN budget - 1 ELSE budget
    /\ turnStart' = StartRecord(Cur, turnColor)

\* takeTurn that returns None instead of "loss"
TakeTurnLoss_none(bounded) ==
    /\ CallTurn(bounded)
    /\ ~hasMove(Cur, turnColor)
    /\ ReturnTurn(NoResult)
    /\ turnLog' = <<>>
    /\ UNCHANGED <<BOARD_SIZE, kind, auxVars, tiles, pieces, selected, winner,
                   peerTiles, peerPieces>>

\* Player.takeTurn / CPUPlayer.takeTurn: no move is available
TakeTurnLoss(bounded) ==
    /\ CallTurn(bounded)
    /\ ~hasMove(Cur, turnColor)
    /\ ReturnTurn(Loss)
    /\ turnLog' = <<>>
    /\ UNCHANGED <<BOARD_SIZE, kind, auxVars, tiles, pieces, selected, winner,
                   peerTiles, peerPieces>>

\* Board._begin leaves its loop and returns the winner
BeginReturn ==
    /\ pc = "loop"
    /\ status = Loss
    /\ winner' = turnColor
    /\ pc' = "done"
    /\ UNCHANGED <<BOARD_SIZE, kind, auxVars, tiles, pieces, selected, turnColor, status,
                   moves, jumps, jumpedJumps, startTile, cpuPiece,
                   turnLog, turnStart, budget, netVars>>

\* Player.takeTurn up to its first getMouse
HumanStart(bounded) ==
    /\ CallTurn(bounded)
    /\ kind[turnColor] = "human"
    /\ hasMove(Cur, turnColor)
    /\ pc' = "human"
    /\ moves' = <<>>
    /\ jumps' = <<>>
    /\ jumpedJumps' = <<>>
    /\ startTile' = -1
    /\ turnLog' = <<>>
    /\ UNCHANGED <<BOARD_SIZE, kind, auxVars, tiles, pieces, selected, turnColor, status,
                   cpuPiece, winner, netVars>>

\* a selection that calls setOccupied, not select, on the tiles it offers
HumanSelect_flags(t) ==
    /\ pc = "human"
    /\ selected[turnColor] = NoPiece
    /\ LET own == Cur.pieces[turnColor]
       IN  \E k \in 1 .. Len(own) :
             /\ own[k].tilenum = t
             /\ \A g \in 1 .. (k - 1) : own[g].tilenum # t
             /\ selected' = [selected EXCEPT ![turnColor] = own[k].id]
             /\ IF canJump(Cur, turnColor)
                THEN /\ jumps' = getJumps(own[k], Cur.tiles, Cur.pieces)
                     /\ moves' = moves
                ELSE /\ moves' = getMoves(own[k], Cur.tiles)
                     /\ jumps' = jumps
             /\ SetBoard(turnColor,
                         [Cur EXCEPT !.tiles =
                             [i \in DOMAIN Cur.tiles |->
                                 \/ Cur.tiles[i]
                                 \/ i \in Range(getMoves(own[k], Cur.tiles))]])
    /\ UNCHANGED <<BOARD_SIZE, kind, auxVars, turnColor, status, pc,
                   jumpedJumps, startTile, cpuPiece, winner,
                   turnLog, turnStart, budget, netpc, chan>>

\* Player.takeTurn, no piece selected: a click on tile t that holds an own piece
HumanSelect(t) ==
    /\ pc = "human"
    /\ selected[turnColor] = NoPiece
    /\ LET own == Cur.pieces[turnColor]
       IN  \E k \in 1 .. Len(own) :
             /\ own[k].tilenum = t
             /\ \A g \in 1 .. (k - 1) : own[g].tilenum # t
             /\ selected' = [selected EXCEPT ![turnColor] = own[k].id]
             /\ IF canJump(Cur, turnColor)
                THEN /\ jumps' = getJumps(own[k], Cur.tiles, Cur.pieces)
                     /\ moves' = moves
                ELSE /\ moves' = getMoves(own[k], Cur.tiles)
                     /\ jumps' = jumps
    /\ UNCHANGED <<BOARD_SIZE, kind, auxVars, tiles, pieces, turnColor, status, pc,
                   jumpedJumps, startTile, cpuPiece, winner,
                   turnLog, turnStart, budget, netVars>>

\* Player.takeTurn, a piece is selected: a click on tile t (-1: no playable tile)
HumanClick(t) ==
    /\ pc = "human"
    /\ selected[turnColor] # NoPiece
    /\ LET c    == turnColor
           id   == selected[c]
           sel  == PieceOf(Cur.pieces, c, id)
           hits == {k \in 1 .. Len(jumps) : jumps[k].endTile = t}
       IN  IF hits # {} THEN
               \* a valid jump was clicked
               LET jump   == jumps[CHOOSE h \in hits : \A g \in hits : h <= g]
                   start1 == IF startTile < 0 THEN sel.tilenum ELSE startTile
                   jj1    == Append(jumpedJumps, jump)
                   b1     == jumpTo(Cur, c, id, jump)
                   sel1   == PieceOf(b1.pieces, c, id)
                   jumps1 == getJumps(sel1, b1.tiles, b1.pieces)
                   log1   == Append(turnLog, HopEntry(Cur, c, id, jump))
               IN  IF ~(sel1.isKing /\ ~sel.isKing) /\ jumps1 # <<>> THEN
                       \* double jump: the piece stays selected
                       IF t \in Range(moves) THEN
                           /\ SetBoard(c, moveTo(b1, c, id, t))
                           /\ turnLog' = Append(log1, MoveEntry(b1, c, id, t))
                           /\ selected' = [selected EXCEPT ![c] = NoPiece]
                           /\ ReturnTurn(Result("move", sel1.tilenum, t, <<>>))
                       ELSE
                           /\ SetBoard(c, b1)
                           /\ turnLog' = log1
                           /\ jumps' = jumps1
                           /\ startTile' = start1
                           /\ jumpedJumps' = jj1
                           /\ UNCHANGED <<selected, turnColor, status, pc,
                                          moves, cpuPiece, netpc, chan>>
                   ELSE
                       /\ SetBoard(c, b1)
                       /\ turnLog' = log1
                       /\ selected' = [selected EXCEPT ![c] = NoPiece]
                       /\ ReturnTurn(Result("jump", start1, -1, jj1))
           ELSE IF t \in Range(moves) THEN
               \* a valid move was clicked
               /\ SetBoard(c, moveTo(Cur, c, id, t))
               /\ turnLog' = Append(turnLog, MoveEntry(Cur, c, id, t))
               /\ selected' = [selected EXCEPT ![c] = NoPiece]
               /\ ReturnTurn(Result("move", sel.tilenum, t, <<>>))
           ELSE
               \* anything else deselects
               /\ selected' = [selected EXCEPT ![c] = NoPiece]
               /\ UNCHANGED <<tiles, pieces, turnColor, status, pc, moves, jumps,
                              jumpedJumps, startTile, cpuPiece, turnLog, netVars>>
    /\ UNCHANGED <<BOARD_SIZE, kind, auxVars, winner, turnStart, budget>>

\* CPUPlayer.takeTurn that plays the first pair of its list, not a random one
CPUTakeTurn_firstPair(bounded) ==
    /\ CallTurn(bounded)
    /\ kind[turnColor] = "cpu"
    /\ hasMove(Cur, turnColor)
    /\ LET c == turnColor
           withJump == {k \in 1 .. Len(pieces[c]) :
                           getJumps(pieces[c][k], tiles, pieces) # <<>>}
           withMove == {k \in 1 .. Len(pieces[c]) :
                           getMoves(pieces[c][k], tiles) # <<>>}
       IN  IF canJump(Cur, c) THEN
               LET piece == pieces[c][CHOOSE k \in withJump :
                                         \A g \in withJump : k <= g]
                   jump  == getJumps(piece, tiles, pieces)[1]
                   board == jumpTo(Cur, c, piece.id, jump)
                   after == PieceOf(board.pieces, c, piece.id)
               IN  /\ tiles' = board.tiles
                   /\ pieces' = board.pieces
                   /\ turnLog' = <<HopEntry(Cur, c, piece.id, jump)>>
                   /\ IF ~(after.isKing /\ ~piece.isKing)
                      THEN /\ pc' = "cpu_jumps"
                           /\ cpuPiece' = piece.id
                           /\ UNCHANGED <<turnColor, status, moves, jumps,
                                          jumpedJumps, startTile, netpc, chan>>
                      ELSE ReturnTurn(NoResult)
           ELSE
               LET piece == pieces[c][CHOOSE k \in withMove :
                                         \A g \in withMove : k <= g]
                   move  == getMoves(piece, tiles)[1]
                   board == moveTo(Cur, c, piece.id, move)
               IN  /\ tiles' = board.tiles
                   /\ pieces' = board.pieces
                   /\ turnLog' = <<MoveEntry(Cur, c, piece.id, move)>>
                   /\ ReturnTurn(NoResult)
    /\ UNCHANGED <<BOARD_SIZE, kind, auxVars, selected, winner, peerTiles, peerPieces>>

\* CPUPlayer.takeTurn up to its first move or hop
CPUTakeTurn(bounded) ==
    /\ CallTurn(bounded)
    /\ kind[turnColor] = "cpu"
    /\ hasMove(Cur, turnColor)
    /\ LET c == turnColor
       IN  IF canJump(Cur, c) THEN
               \E k \in 1 .. Len(pieces[c]) :
                 \E jump \in Range(getJumps(pieces[c][k], tiles, pieces)) :
                   LET piece == pieces[c][k]
                       board == jumpTo(Cur, c, piece.id, jump)
                       after == PieceOf(board.pieces, c, piece.id)
                   IN  /\ tiles' = board.tiles
                       /\ pieces' = board.pieces
                       /\ turnLog' = <<HopEntry(Cur, c, piece.id, jump)>>
                       /\ IF ~(after.isKing /\ ~piece.isKing)
                          THEN /\ pc' = "cpu_jumps"
                               /\ cpuPiece' = piece.id
                               /\ UNCHANGED <<turnColor, status, moves, jumps,
                                              jumpedJumps, startTile, netpc, chan>>
                          ELSE ReturnTurn(NoResult)
           ELSE
               \E k \in 1 .. Len(pieces[c]) :
                 \E move \in Range(getMoves(pieces[c][k], tiles)) :
                   LET piece == pieces[c][k]
                       board == moveTo(Cur, c, piece.id, move)
                   IN  /\ tiles' = board.tiles
                       /\ pieces' = board.pieces
                       /\ turnLog' = <<MoveEntry(Cur, c, piece.id, move)>>
                       /\ ReturnTurn(NoResult)
    /\ UNCHANGED <<BOARD_SIZE, kind, auxVars, selected, winner, peerTiles, peerPieces>>

\* CPUPlayer.takeTurn: one iteration of `while jumps := piece.getJumps(board)`
CPUJump ==
    /\ pc = "cpu_jumps"
    /\ LET c == turnColor
           piece == PieceOf(pieces, c, cpuPiece)
           js == getJumps(piece, tiles, pieces)
       IN  /\ js # <<>>
           /\ \E jump \in Range(js) :
                LET board == jumpTo(Cur, c, cpuPiece, jump)
                IN  /\ tiles' = board.tiles
                    /\ pieces' = board.pieces
                    /\ turnLog' = Append(turnLog, HopEntry(Cur, c, cpuPiece, jump))
    /\ UNCHANGED <<BOARD_SIZE, kind, auxVars, selected, turnColor, status, pc, moves, jumps,
                   jumpedJumps, startTile, cpuPiece, winner, turnStart, budget,
                   netVars>>

\* a chain loop that may stop while the piece still has a jump
CPUReturn_early ==
    /\ pc = "cpu_jumps"
    /\ ReturnTurn(NoResult)
    /\ UNCHANGED <<BOARD_SIZE, kind, auxVars, tiles, pieces, selected, winner,
                   turnLog, turnStart, budget, peerTiles, peerPieces>>

\* CPUPlayer.takeTurn: the while loop ends and the method returns None
CPUReturn ==
    /\ pc = "cpu_jumps"
    /\ getJumps(PieceOf(pieces, turnColor, cpuPiece), tiles, pieces) = <<>>
    /\ ReturnTurn(NoResult)
    /\ UNCHANGED <<BOARD_SIZE, kind, auxVars, tiles, pieces, selected, winner,
                   turnLog, turnStart, budget, peerTiles, peerPieces>>

\* CPUPlayer.takeTurn: the list of jumps that collects only the jumps of
\* the first piece
JumpPairs_firstPiece(b, color) ==
    IF b.pieces[color] = <<>> THEN <<>>
    ELSE LET p  == b.pieces[color][1]
             js == getJumps(p, b.tiles, b.pieces)
         IN  [i \in 1 .. Len(js) |-> <<p.id, js[i]>>]

\* CPUPlayer.takeTurn: the list of (piece, jump) pairs handed to
\* random.choice, pieces in the order of the player's list
JumpPairs(b, color) ==
    LET ps == b.pieces[color]
        RECURSIVE from(_)
        from(k) ==
            IF k > Len(ps) THEN <<>>
            ELSE LET js == getJumps(ps[k], b.tiles, b.pieces)
                 IN  [i \in 1 .. Len(js) |-> <<ps[k].id, js[i]>>] \o from(k + 1)
    IN  from(1)

\* CPUPlayer.takeTurn: the list of (piece, move) pairs handed to
\* random.choice
MovePairs(b, color) ==
    LET ps == b.pieces[color]
        RECURSIVE from(_)
        from(k) ==
            IF k > Len(ps) THEN <<>>
            ELSE LET ms == getMoves(ps[k], b.tiles)
                 IN  [i \in 1 .. Len(ms) |-> <<ps[k].id, ms[i]>>] \o from(k + 1)
    IN  from(1)

\* send_move calls takeTurn of the player of color on the peer's own Board
SendCall(color) ==
    /\ pc = "net"
    /\ netpc[color] = "send"
    /\ budget > 0
    /\ budget' = budget - 1
    /\ turnColor' = color
    /\ turnStart' = StartRecord(BoardOf(color), color)
    /\ turnLog' = <<>>

\* send_move, takeTurn returns "loss" at once: the peer sends it, reports
\* that it lost and leaves its loop
send_move_loss(color) ==
    /\ SendCall(color)
    /\ ~hasMove(BoardOf(color), color)
    /\ status' = Loss
    /\ Send(color, Loss)
    /\ UNCHANGED <<BOARD_SIZE, kind, auxVars, tiles, pieces, selected, pc, moves, jumps,
                   jumpedJumps, startTile, cpuPiece, winner,
                   peerTiles, peerPieces>>

\* send_move, takeTurn waits for its first click
send_move_start(color) ==
    /\ SendCall(color)
    /\ hasMove(BoardOf(color), color)
    /\ pc' = "human"
    /\ moves' = <<>>
    /\ jumps' = <<>>
    /\ jumpedJumps' = <<>>
    /\ startTile' = -1
    /\ UNCHANGED <<BOARD_SIZE, kind, auxVars, tiles, pieces, selected, status,
                   cpuPiece, winner, netVars>>

\* does a piece of color stand on tilenum
Holds(b, color, tilenum) ==
    \E k \in 1 .. Len(b.pieces[color]) : b.pieces[color][k].tilenum = tilenum

RECURSIVE LegalChain(_, _, _, _)
\* is chain a capture chain that piece id of color may make on board b: every
\* hop is one of the piece's jumps, and the chain goes on until the piece is
\* crowned or has no jump
LegalChain(b, color, id, chain) ==
    /\ chain # <<>>
    /\ LET p     == PieceOf(b.pieces, color, id)
           after == jumpTo(b, color, id, Head(chain))
           q     == PieceOf(after.pieces, color, id)
           ends  == \/ q.isKing /\ ~p.isKing
                    \/ getJumps(q, after.tiles, after.pieces) = <<>>
       IN  /\ Head(chain) \in Range(getJumps(p, b.tiles, b.pieces))
           /\ IF Tail(chain) = <<>> THEN ends
              ELSE ~ends /\ LegalChain(after, color, id, Tail(chain))

\* is the received move a legal turn of color on board b
LegalTurn(b, color, move) ==
    /\ Holds(b, color, move.from)
    /\ LET id == getPiece(b, color, move.from)
       IN  IF move.tag = "move"
           THEN /\ Jumpers(b, color) = {}
                /\ move.to \in Range(getMoves(PieceOf(b.pieces, color, id), b.tiles))
           ELSE LegalChain(b, color, id, move.chain)

RECURSIVE KillsHit(_, _, _, _)
\* does every hop of chain, made by piece id of color from board b on, jump
\* a tile on which the other side has a piece
KillsHit(b, color, id, chain) ==
    \/ chain = <<>>
    \/ /\ Holds(b, Opp(color), Head(chain).jumpedTile)
       /\ KillsHit(jumpTo(b, color, id, Head(chain)), color, id, Tail(chain))

\* recv_move as the history records it
RecvEntry(b, color, move, outcome) ==
    [outcome  |-> outcome,
     move     |-> move,
     srcHeld  |-> Holds(b, color, move.from),
     legal    |-> LegalTurn(b, color, move),
     killsHit |-> /\ Holds(b, color, move.from)
                  /\ KillsHit(b, color, getPiece(b, color, move.from), move.chain),
     before   |-> b]

\* recv_move of the peer that plays color, move is what it unpickles: "loss"
\* does not unpack (ValueError), the peer reports that it won and leaves its
\* loop; any other result is replayed with the opponent's piece on its source
\* tile, or, if there is no such piece, an exception ends the peer
Receive(color, move) ==
    /\ pc = "net"
    /\ netpc[color] = "recv"
    /\ chan[color] # <<>>
    /\ LET board == BoardOf(color)
           piece == getPiece(board, Opp(color), move.from)
           outcome == IF move = Loss THEN "won"
                      ELSE IF piece # NoPiece THEN "applied" ELSE "error"
       IN  /\ chan' = [chan EXCEPT ![color] = Tail(@)]
           /\ recvLog' = [recvLog EXCEPT
                             ![color] = RecvEntry(board, Opp(color), move, outcome)]
           /\ IF move = Loss THEN
                  /\ netpc' = [netpc EXCEPT ![color] = "won"]
                  /\ UNCHANGED <<tiles, pieces, peerTiles, peerPieces>>
              ELSE IF piece # NoPiece THEN
                  /\ SetBoard(color, doMove(board, Opp(color), piece, move))
                  /\ netpc' = [netpc EXCEPT ![color] = "send"]
              ELSE
                  /\ netpc' = [netpc EXCEPT ![color] = "error"]
                  /\ UNCHANGED <<tiles, pieces, peerTiles, peerPieces>>
    /\ UNCHANGED <<BOARD_SIZE, kind, sims, wins, game, setup, selected, turnColor,
                   status, pc, moves, jumps, jumpedJumps, startTile, cpuPiece,
                   winner, turnLog, turnStart>>

\* recv_move: the packet is the one the other peer's send_move sent
recv_move(color) ==
    /\ Receive(color, Head(chan[color]))
    /\ UNCHANGED budget

\* the packets a peer can be sent: "loss", (from, to) and (from, [Jump])
Packets ==
    {Loss}
    \cup {Result("move", f, to, <<>>) : f \in TileNums, to \in TileNums}
    \cup {Result("jump", f, -1, <<Jump(j, e)>>) :
             f \in TileNums, j \in TileNums, e \in TileNums}

\* recv_move: the packet that arrives was not made by send_move of this
\* program; the game is followed no further than this packet
recv_forged(color, packet) ==
    /\ Receive(color, packet)
    /\ budget' = 0

Clicks == TileNums \cup {-1}

Next ==
    \/ TakeTurnLoss(TRUE)
    \/ BeginReturn
    \/ HumanStart(TRUE)
    \/ \E t \in TileNums : HumanSelect(t)
    \/ \E t \in Clicks : HumanClick(t)
    \/ CPUTakeTurn(TRUE)
    \/ CPUJump
    \/ CPUReturn

Spec == Init /\ [][Next]_vars

\* the module is loaded with some BOARD_SIZE and Board is about to be
\* constructed with some players: no window, no tile and no player exists
InitSetup ==
    /\ BOARD_SIZE \in SetupSizes
    /\ \E n \in PlayerCounts :
          setup = [players |-> n, window |-> FALSE, error |-> FALSE]
    /\ kind = [c \in Colors |-> "none"]
    /\ pc = "new"
    /\ tiles = <<>>
    /\ pieces = [c \in Colors |-> <<>>]
    /\ netpc = [c \in Colors |-> "off"]
    /\ chan = [c \in Colors |-> <<>>]
    /\ peerTiles = <<>>
    /\ peerPieces = [c \in Colors |-> <<>>]
    /\ turnColor = BLACK
    /\ status = NoStatus
    /\ turnLog = <<>>
    /\ turnStart = NoStart
    /\ Idle
    /\ NoSims

\* Board.__init__: the window is made, the tiles are populated and drawn,
\* and only then players is matched: 2, 1 or 0 makes the two players, any
\* other value raises ValueError.  BOARD_SIZE is not looked at.  The game
\* that follows is followed on a board of an even size >= 4 only
BoardInit ==
    /\ pc = "new"
    /\ tiles' = PopulateTiles
    /\ setup' = [setup EXCEPT !.window = TRUE,
                              !.error = setup.players \notin {0, 1, 2}]
    /\ IF setup.players \in {0, 1, 2}
       THEN /\ kind' = CHOOSE kinds \in Kinds : PlayersOf(kinds) = setup.players
            /\ pieces' = [c \in Colors |-> PopulatePieces(c)]
            /\ pc' = IF BOARD_SIZE % 2 = 0 /\ BOARD_SIZE >= 4
                     THEN "loop" ELSE "made"
       ELSE /\ pc' = "raised"
            /\ UNCHANGED <<kind, pieces>>
    /\ UNCHANGED <<BOARD_SIZE, recvLog, sims, wins, game, selected, turnColor,
                   status, moves, jumps, jumpedJumps, startTile, cpuPiece,
                   winner, turnLog, turnStart, budget, netVars>>

NextSetup == BoardInit \/ Next

SpecSetup == InitSetup /\ [][NextSetup]_vars

\* the simulation (CPUPlayer against CPUPlayer), games of any length; the
\* game loop is sequential code that always takes its next step
NextLive ==
    \/ TakeTurnLoss(FALSE)
    \/ BeginReturn
    \/ CPUTakeTurn(FALSE)
    \/ CPUJump
    \/ CPUReturn

SpecLive == InitLive /\ [][NextLive]_vars /\ WF_vars(NextLive)

\* a simulation that forgets the wins of Red
Tally_blackOnly(w, color) ==
    IF color = BLACK THEN [w EXCEPT ![color] = @ + 1] ELSE w

\* Board.__init__, players = 0: wins[winner] += 1
Tally(w, color) == [w EXCEPT ![color] = @ + 1]

\* _reset that leaves the tiles as the game left them
reset_none(b) == b

\* Board._reset: the tiles are populated anew; the pieces of both players are
\* undrawn, the lists that hold them are not changed
reset(b) == [tiles |-> PopulateTiles, pieces |-> b.pieces]

\* Board.__init__, players = 0: _begin has returned; the winner is counted,
\* the Board is reset, and either the next iteration makes two new
\* CPUPlayers and calls _begin, or the loop ends and the wins are printed
NextSim ==
    /\ pc = "done"
    /\ game < sims
    /\ wins' = Tally(wins, winner)
    /\ game' = game + 1
    /\ tiles' = reset(Cur).tiles
    /\ IF game + 1 < sims
       THEN /\ pieces' = [c \in Colors |-> PopulatePieces(c)]
            /\ pc' = "loop"
            /\ turnColor' = BLACK
            /\ status' = NoStatus
            /\ winner' = NoColor
            /\ turnLog' = <<>>
            /\ turnStart' = NoStart
            /\ budget' = TurnBudget
       ELSE /\ pieces' = reset(Cur).pieces
            /\ pc' = "end"
            /\ UNCHANGED <<turnColor, status, winner, turnLog, turnStart, budget>>
    /\ UNCHANGED <<BOARD_SIZE, kind, recvLog, sims, setup, selected, moves, jumps,
                   jumpedJumps, startTile, cpuPiece, netVars>>

\* Board.__init__, players = 0: sims games are asked for; with sims = 0 the
\* loop body never runs and no player is made.  The simulation is followed
\* from its start, and on the 6 x 6 board also from EndGame in its first game
InitSim ==
    /\ kind = [c \in Colors |-> "cpu"]
    /\ sims \in 0 .. MaxSims
    /\ wins = [c \in Colors |-> 0]
    /\ game = 0
    /\ \/ /\ sims > 0
          /\ \/ BOARD_SIZE \in {4, 6} /\ NewGame
             \/ BOARD_SIZE = 6 /\ EndGame
       \/ /\ sims = 0
          /\ BOARD_SIZE \in {4, 6}
          /\ pc = "end"
          /\ setup = Built
          /\ netpc = [c \in Colors |-> "off"]
          /\ chan = [c \in Colors |-> <<>>]
          /\ peerTiles = <<>>
          /\ peerPieces = [c \in Colors |-> <<>>]
          /\ Idle
          /\ tiles = PopulateTiles
          /\ pieces = [c \in Colors |-> <<>>]
          /\ turnColor = BLACK
          /\ status = NoStatus
          /\ turnLog = <<>>
          /\ turnStart = NoStart

NextSims ==
    \/ TakeTurnLoss(TRUE)
    \/ BeginReturn
    \/ CPUTakeTurn(TRUE)
    \/ CPUJump
    \/ CPUReturn
    \/ NextSim

SpecSim == InitSim /\ [][NextSims]_vars

\* start_server and start_client: each peer makes a Board of its own
\* (players = 2); the host plays Black and sends first, the joiner plays Red
\* and receives first
InitNet ==
    /\ BOARD_SIZE \in BoardSizes
    /\ kind = [c \in Colors |-> "human"]
    /\ tiles = PopulateTiles
    /\ pieces = [c \in Colors |-> PopulatePieces(c)]
    /\ peerTiles = PopulateTiles
    /\ peerPieces = [c \in Colors |-> PopulatePieces(c)]
    /\ netpc = [c \in Colors |-> IF c = BLACK THEN "send" ELSE "recv"]
    /\ chan = [c \in Colors |-> <<>>]
    /\ pc = "net"
    /\ setup = Built
    /\ turnColor = BLACK
    /\ status = NoStatus
    /\ turnLog = <<>>
    /\ turnStart = NoStart
    /\ Idle
    /\ NoSims

NextNet ==
    \/ \E c \in Colors : send_move_loss(c)
    \/ \E c \in Colors : send_move_start(c)
    \/ \E t \in TileNums : HumanSelect(t)
    \/ \E t \in Clicks : HumanClick(t)
    \/ \E c \in Colors : recv_move(c)

SpecNet == InitNet /\ [][NextNet]_vars

\* recv_move of a "loss" that was sent to the peer that plays color
recv_loss(color) ==
    /\ chan[color] # <<>>
    /\ Head(chan[color]) = Loss
    /\ recv_move(color)

\* the two peers, where a peer that waits in recv_move (a blocking
\* socket.recv) goes on once a "loss" was sent to it; a person who plays
\* may click for ever without making a move
SpecNetLive ==
    InitNet /\ [][NextNet]_vars
            /\ WF_vars(recv_loss(BLACK)) /\ WF_vars(recv_loss(RED))

\* a networked game on the smallest board in which any packet may arrive
InitWire == InitNet /\ BOARD_SIZE = 4

\* a packet arrives at the peer that plays color while it waits in recv_move
Arrives(color) ==
    /\ pc = "net"
    /\ netpc[color] = "recv"
    /\ chan[color] # <<>>
    /\ \E packet \in Packets : recv_forged(color, packet)

NextWire ==
    \/ NextNet
    \/ \E c \in Colors : Arrives(c)

SpecWire == InitWire /\ [][NextWire]_vars

\* every way to play: Board._begin on one Board, or two peers
InitAll == Init \/ InitNet

NextAll == Next \/ NextNet

SpecAll == InitAll /\ [][NextAll]_vars

----------------------------------------------------------------------------
(* Properties *)

\* every live piece, as <<colour, position in its owner's list>>
LivePieces == {<<c, k>> : c \in Colors, k \in 1 .. 2 * NumTiles} \cap
              UNION {{<<c, k>> : k \in 1 .. Len(pieces[c])} : c \in Colors}

PiecesOn(t) == {ck \in LivePieces : pieces[ck[1]][ck[2]].tilenum = t}

\* the colour whose takeTurn was called last
Mover == turnStart.color

LastHop == turnLog[Len(turnLog)]

NewlyCrowned(e) == e.isKing /\ ~e.wasKing

\* C1: in every reachable state a tile is flagged occupied iff exactly one
\* live piece stands on it, and no two pieces stand on the same tile.
C1_Occupancy ==
    /\ \A t \in TileNums : tiles[t] <=> Cardinality(PiecesOn(t)) = 1
    /\ \A t \in TileNums : Cardinality(PiecesOn(t)) <= 1

C1_Witness ==
    /\ turnLog # <<>>
    /\ LastHop.op = "jumpTo"
    /\ ~tiles[LastHop.from]
    /\ ~tiles[LastHop.jumped]
    /\ tiles[LastHop.to]

\* C2: a hop that crowns the jumping man is the last hop of its turn.
C2_CrownEndsChain ==
    \A k \in 1 .. Len(turnLog) :
        turnLog[k].op = "jumpTo" /\ NewlyCrowned(turnLog[k]) => k = Len(turnLog)

\* C3: in Player.takeTurn every hop of a turn is made by the piece that made
\* the first hop of that turn.
C3_SamePieceContinues ==
    (Mover # NoColor /\ kind[Mover] = "human") =>
        \A k, m \in 1 .. Len(turnLog) : turnLog[k].id = turnLog[m].id

\* C4: when the side to move has a legal jump at the start of its turn, the
\* turn applies only legal jumps and no simple move.
C4_ForcedCapture ==
    turnStart.jumpers # {} =>
        \A k \in 1 .. Len(turnLog) :
            turnLog[k].op = "jumpTo" /\ turnLog[k].legal

C4_Witness ==
    /\ turnStart.jumpers # {}
    /\ Cardinality(turnStart.movers) > Cardinality(turnStart.jumpers)
    /\ pc = "loop"
    /\ turnLog # <<>>

\* C5: a turn that contains a jump has ended only if the piece that made the
\* last hop was crowned by it or has no legal jump from its landing tile.
C5_ChainMaximal ==
    (pc \in {"loop", "done"} /\ turnLog # <<>> /\ LastHop.op = "jumpTo") =>
        \/ NewlyCrowned(LastHop)
        \/ getJumps(PieceOf(pieces, Mover, LastHop.id), tiles, pieces) = <<>>

C5_Witness ==
    /\ pc = "loop"
    /\ Len(turnLog) >= 2
    /\ LastHop.op = "jumpTo"
    /\ ~NewlyCrowned(LastHop)

RowOf(t) == t \div HALF_BOARD_SIZE

NoManOnBackRow ==
    \A ck \in LivePieces :
        LET p == pieces[ck[1]][ck[2]]
        IN  ~p.isKing =>
               /\ p.color = BLACK => RowOf(p.tilenum) # BOARD_SIZE - 1
               /\ p.color = RED => RowOf(p.tilenum) # 0

KingsStay ==
    \A c \in Colors :
        \A k \in 1 .. Len(pieces[c]) :
            \A m \in 1 .. Len(pieces'[c]) :
                (pieces[c][k].isKing /\ pieces'[c][m].id = pieces[c][k].id)
                    => pieces'[c][m].isKing

\* C6: no man ever stands on the opponent's back row (the move or hop that
\* brings it there crowns it), and a king stays a king.
C6_Promotion == [](NoManOnBackRow) /\ [][KingsStay]_vars

C6_Witness ==
    /\ turnLog # <<>>
    /\ NewlyCrowned(LastHop)
    /\ PieceOf(pieces, Mover, LastHop.id).isKing
    /\ RowOf(LastHop.to) \in {0, BOARD_SIZE - 1}

\* C7: takeTurn returns "loss" exactly when the side to move has neither a
\* legal move nor a legal jump at the start of its turn, and Board._begin
\* ends only then, returning the opposite colour as the winner.
C7_TerminalDetection ==
    /\ status = Loss <=> (Mover # NoColor /\ turnStart.movers = {})
    /\ pc = "done" => (status = Loss /\ winner = Opp(Mover))
    /\ pc # "done" => winner = NoColor

C7_Witness ==
    /\ pc = "done"
    /\ status = Loss
    /\ winner = Opp(Mover)
    /\ turnStart.movers = {}
    /\ pieces[Mover] # <<>>

\* a completed turn is one simple move or one capture chain of one piece
OneAction(log) ==
    \/ Len(log) = 1 /\ log[1].op = "moveTo"
    \/ /\ log # <<>>
       /\ \A k \in 1 .. Len(log) : log[k].op = "jumpTo" /\ log[k].id = log[1].id
       /\ \A k \in 1 .. (Len(log) - 1) : log[k + 1].from = log[k].to

\* C8: Black takes the first turn, the side that moved last is never the
\* side to move next, and every turn that does not lose applies exactly one
\* simple move or one capture chain made by one piece.
C8_TurnSequencing ==
    /\ Mover = NoColor => (turnColor = BLACK /\ pc = "loop")
    /\ (Mover # NoColor /\ pc \in {"loop", "done"}) => turnColor = Opp(Mover)
    /\ pc \in {"human", "cpu_jumps"} => turnColor = Mover
    /\ (Mover # NoColor /\ pc \in {"loop", "done"}) =>
          IF status = Loss THEN turnLog = <<>> ELSE OneAction(turnLog)

\* C9 as claimed: every simulated game reaches the terminal state.
C9_AlwaysEnds == <>(pc = "done")

\* C9 as amended: a game in which the side to move has neither a legal move
\* nor a legal jump reaches the terminal state, and a winner is reported.
C9_StuckSideEnds ==
    (pc = "loop" /\ status # Loss /\ Movers(Cur, turnColor) = {})
        ~> (pc = "done" /\ winner # NoColor)

C9_Witness ==
    /\ pc = "done"
    /\ status = Loss
    /\ winner = turnColor
    /\ Movers(Cur, Opp(winner)) = {}

\* C10: once a takeTurn has returned "loss", no takeTurn is called and no
\* Board of the game is changed any more, whether the game is run by
\* Board._begin or by the host and join loops.
C10_TerminalAbsorbing ==
    [][status = Loss =>
          /\ tiles' = tiles
          /\ pieces' = pieces
          /\ peerTiles' = peerTiles
          /\ peerPieces' = peerPieces
          /\ turnStart' = turnStart
          /\ turnLog' = turnLog
          /\ status' = Loss]_vars

C10_Witness ==
    /\ status = Loss
    /\ netpc[Mover] = "lost"
    /\ netpc[Opp(Mover)] = "won"
    /\ chan[Opp(Mover)] = <<>>

\* the peers whose latest recv_move got a move or a chain
Received == {c \in Colors : recvLog[c].outcome \in {"applied", "error"}}

\* C11: a received move or chain that is not a legal turn of the sender on
\* the receiver's Board is answered with an error and changes nothing.
C11_InvalidRejected ==
    \A c \in Received :
        ~recvLog[c].legal =>
            /\ recvLog[c].outcome = "error"
            /\ BoardOf(c) = recvLog[c].before

\* C12: a received move or chain whose source tile holds no piece of the
\* sender ends recv_move with an error and leaves the receiver's Board as
\* it was.
C12_NoSourceRejected ==
    \A c \in Received :
        ~recvLog[c].srcHeld =>
            /\ recvLog[c].outcome = "error"
            /\ netpc[c] = "error"
            /\ BoardOf(c) = recvLog[c].before

C12_Witness ==
    \E c \in Colors :
        /\ recvLog[c].outcome = "error"
        /\ recvLog[c].move.tag = "jump"
        /\ Len(recvLog[c].before.pieces[Opp(c)]) > 0

\* C13: a jumpTo over a tile on which the other side has no piece does not
\* complete: no chain with such a hop is applied.
C13_KillFailsFast ==
    \A c \in Received :
        (recvLog[c].outcome = "applied" /\ recvLog[c].move.tag = "jump")
            => recvLog[c].killsHit

\* C14: when a peer has replayed the result of the other peer's turn, its
\* Board equals the Board on which the turn was played.
C14_MirroredBoards ==
    \A c \in Colors :
        (/\ recvLog[c].outcome = "applied"
         /\ pc = "net"
         /\ netpc[c] = "send"
         /\ netpc[Opp(c)] = "recv"
         /\ chan[Opp(c)] = <<>>)
            => /\ tiles = peerTiles
               /\ pieces = peerPieces

\* the hops of a turn as a list of jumps
ChainOf(log) == [k \in 1 .. Len(log) |-> Jump(log[k].jumped, log[k].to)]

\* status is the result of the latest turn in one of the three shapes
ShapeOK ==
    \/ /\ status = Loss
       /\ turnStart.movers = {}
       /\ turnLog = <<>>
    \/ /\ status.tag = "move"
       /\ Len(turnLog) = 1
       /\ turnLog[1].op = "moveTo"
       /\ status.from = turnLog[1].from
       /\ status.to = turnLog[1].to
    \/ /\ status.tag = "jump"
       /\ turnLog # <<>>
       /\ \A k \in 1 .. Len(turnLog) : turnLog[k].op = "jumpTo"
       /\ status.from = turnLog[1].from
       /\ status.chain = ChainOf(turnLog)

TurnResolved == Mover # NoColor /\ pc \in {"loop", "done"}

\* C15 as claimed: every takeTurn returns the loss sentinel, (sourceTile,
\* destinationTile) or (sourceTile, chain), whichever player class it is.
C15_ResultShape == TurnResolved => ShapeOK

\* C15 as amended: Player.takeTurn returns one of the three shapes, and
\* CPUPlayer.takeTurn returns the loss sentinel if the side has no legal
\* action and None otherwise.
C15_ResultShapeByClass ==
    TurnResolved =>
        IF kind[Mover] = "human" THEN ShapeOK
        ELSE IF turnStart.movers = {} THEN status = Loss
        ELSE status = NoResult /\ turnLog # <<>>

C15_Witness ==
    /\ TurnResolved
    /\ kind[Mover] = "human"
    /\ status.tag = "jump"
    /\ Len(status.chain) = 2

\* the layout of b: men of Black on the first HALF_BOARD_SIZE - 1 rows, men
\* of Red on the last, the two middle rows empty
StartingLayout(b) ==
    LET blackRows == {t \in TileNums : RowOf(t) < HALF_BOARD_SIZE - 1}
        redRows   == {t \in TileNums : RowOf(t) > HALF_BOARD_SIZE}
        on(c)     == {b.pieces[c][k].tilenum : k \in 1 .. Len(b.pieces[c])}
    IN  /\ \A t \in TileNums : b.tiles[t] <=> t \in blackRows \cup redRows
        /\ on(BLACK) = blackRows
        /\ on(RED) = redRows
        /\ \A c \in Colors :
              /\ Len(b.pieces[c]) = Cardinality(on(c))
              /\ \A k \in 1 .. Len(b.pieces[c]) :
                    ~b.pieces[c][k].isKing /\ b.pieces[c][k].color = c

\* no takeTurn was called yet
Fresh == turnStart = NoStart

\* C16: a newly created game has the starting layout for its board size, on
\* the Board of Board._begin and on the Boards of both peers.
C16_StartingLayout ==
    Fresh =>
        /\ StartingLayout([tiles |-> tiles, pieces |-> pieces])
        /\ Networked =>
              StartingLayout([tiles |-> peerTiles, pieces |-> peerPieces])

C16_Witness ==
    /\ Fresh
    /\ BOARD_SIZE = 6
    /\ Len(pieces[BLACK]) = 6
    /\ ~tiles[6] /\ ~tiles[11]

\* the rows of the packed index on which a piece stands or a tile is flagged
MenRows(c) == {RowOf(pieces[c][k].tilenum) : k \in 1 .. Len(pieces[c])}

FlaggedRows == {RowOf(t) : t \in {u \in TileNums : tiles[u]}}

\* C17 as claimed: on the 8 x 8 board a new game has each side's two back
\* rows, and only those, filled with men.
C17_TwoBackRows ==
    (Fresh /\ BOARD_SIZE = 8) =>
        /\ MenRows(BLACK) = {0, 1}
        /\ MenRows(RED) = {6, 7}
        /\ FlaggedRows = {0, 1, 6, 7}

\* C17 as amended: on the 8 x 8 board a new game has each side's three back
\* rows, and only those, filled with men (twelve men a side).
C17_ThreeBackRows ==
    (Fresh /\ BOARD_SIZE = 8) =>
        /\ MenRows(BLACK) = {0, 1, 2}
        /\ MenRows(RED) = {5, 6, 7}
        /\ FlaggedRows = {0, 1, 2, 5, 6, 7}
        /\ \A c \in Colors :
              /\ Len(pieces[c]) = 12
              /\ Cardinality({pieces[c][k].tilenum : k \in 1 .. 12}) = 12
              /\ \A k \in 1 .. 12 : ~pieces[c][k].isKing
        /\ \A t \in TileNums : tiles[t] <=> RowOf(t) \notin {3, 4}

C17_Witness ==
    /\ Fresh
    /\ BOARD_SIZE = 8
    /\ Len(pieces[RED]) = 12
    /\ pc = "loop"

\* C20: the host sends first, a peer sends only after the other peer's turn,
\* the two peers are never both sending, and never both waiting with
\* nothing on its way to either.
C20_StrictAlternation ==
    /\ Fresh => (netpc[BLACK] = "send" /\ netpc[RED] = "recv")
    /\ ~(netpc[BLACK] = "send" /\ netpc[RED] = "send")
    /\ (netpc[BLACK] = "recv" /\ netpc[RED] = "recv")
          => Len(chan[BLACK]) + Len(chan[RED]) = 1
    /\ \A c \in Colors :
          /\ (netpc[c] = "send" /\ pc = "net" /\ ~Fresh) => Mover = Opp(c)
          /\ pc = "human" => (turnColor = Mover /\ netpc[Mover] = "send")
          /\ netpc[c] = "send" => chan[Opp(c)] = <<>>

C20_Witness ==
    /\ netpc[RED] = "recv"
    /\ netpc[BLACK] = "send"
    /\ pc = "net"
    /\ Mover = RED
    /\ recvLog[BLACK].outcome = "applied"

\* C18: the wins counted are as many as the games completed, never more than
\* sims games are played, every completed game has one winner, and when the
\* simulation has ended exactly sims games were completed.
C18_SimulationCounts ==
    /\ wins[BLACK] + wins[RED] = game
    /\ game <= sims
    /\ pc = "done" => winner \in Colors
    /\ pc = "end" => game = sims

C18_Witness ==
    /\ pc = "end"
    /\ sims = 3
    /\ wins[BLACK] >= 1
    /\ wins[RED] >= 1

\* C19: whenever a game of the simulation starts, the first and every later
\* one, the Board and both players have the starting layout.
C19_ResetBetweenGames ==
    (sims > 0 /\ pc = "loop" /\ status = NoStatus) =>
        StartingLayout([tiles |-> tiles, pieces |-> pieces])

C19_Witness ==
    /\ game >= 1
    /\ pc = "loop"
    /\ status = NoStatus
    /\ BOARD_SIZE = 6
    /\ wins[RED] = 1

\* where the two loops are once a "loss" was sent
EndOfNetGame ==
    /\ (Networked /\ status = Loss) => netpc[Mover] = "lost"
    /\ \A c \in Colors :
          /\ netpc[c] = "lost" =>
                /\ status = Loss
                /\ Mover = c
                /\ turnStart.movers = {}
                /\ \/ netpc[Opp(c)] = "won"
                   \/ netpc[Opp(c)] = "recv" /\ chan[Opp(c)] = <<Loss>>
          /\ netpc[c] = "won" =>
                /\ netpc[Opp(c)] = "lost"
                /\ recvLog[c].outcome = "won"
                /\ BoardOf(c) = recvLog[c].before
                /\ chan[c] = <<>>

\* C21: the peer whose takeTurn returns "loss" sends it, reports that it lost
\* and leaves its loop; the other peer receives it, applies no move, reports
\* that it won and leaves its loop: both loops end and exactly one peer wins.
C21_NetworkGameEnd ==
    /\ []EndOfNetGame
    /\ \A c \in Colors :
          (netpc[c] = "lost") ~> (netpc[c] = "lost" /\ netpc[Opp(c)] = "won")

C21_Witness ==
    \E c \in Colors :
        /\ netpc[c] = "won"
        /\ netpc[Opp(c)] = "lost"
        /\ recvLog[c].outcome = "won"
        /\ recvLog[c].move = Loss
        /\ BoardOf(c) = recvLog[c].before
        /\ Len(recvLog[c].before.pieces[Opp(c)]) > 0

\* a configuration that is not allowed
BadConfig ==
    \/ setup.players \notin {0, 1, 2}
    \/ BOARD_SIZE % 2 # 0
    \/ BOARD_SIZE < 4

\* C22: Board.__init__ with players outside {0, 1, 2}, or with a BOARD_SIZE
\* that is odd or less than 4, reports an error, and no window, tile or
\* player was made when it does.
C22_ConfigErrorsFatal ==
    (pc # "new" /\ BadConfig) =>
        /\ setup.error
        /\ ~setup.window
        /\ tiles = <<>>
        /\ pieces = [c \in Colors |-> <<>>]

\* the column of tile t on the board of BOARD_SIZE columns, from where
\* Board._populate draws it
ColOf(t) == locX(t) \div TILE_SIZE

\* the tile in row r and column c, for r + c even
TileAt(r, c) == r * HALF_BOARD_SIZE + c \div 2

\* the tiles one row and one column away from tile t
Diagonal(t) ==
    {TileAt(r, c) : r \in {RowOf(t) - 1, RowOf(t) + 1} \cap (0 .. BOARD_SIZE - 1),
                    c \in {ColOf(t) - 1, ColOf(t) + 1} \cap (0 .. BOARD_SIZE - 1)}

\* the row ahead of a man of colour c is one up for Black, one down for Red
Ahead(c) == IF c = BLACK THEN 1 ELSE -1

\* tile i lies on the rim of the board
OnRim(i) ==
    \/ RowOf(i) \in {0, BOARD_SIZE - 1}
    \/ ColOf(i) \in {0, BOARD_SIZE - 1}

\* the jumps the rules give piece p: over a diagonal neighbour n that holds
\* a piece of the other side and is not on the rim, onto the free tile l
\* two rows and two columns away in the same direction
RuleJumps(p) ==
    LET t    == p.tilenum
        over == {n \in Range(getPosMoves(p)) \cap TileNums :
                    /\ Holds([pieces |-> pieces], Opp(p.color), n)
                    /\ ~OnRim(n)}
        beyond(n) ==
            {l \in TileNums :
                /\ RowOf(l) - RowOf(t) = 2 * (RowOf(n) - RowOf(t))
                /\ ColOf(l) - ColOf(t) = 2 * (ColOf(n) - ColOf(t))
                /\ ~tiles[l]}
    IN  UNION {{Jump(n, l) : l \in beyond(n)} : n \in over}

\* C23: for every piece of every reachable position, getJumps returns
\* exactly the jumps over a diagonal neighbour that holds an opponent's
\* piece and is not an edge tile onto the free tile two diagonal steps
\* away, each once; it returns no jump over an own piece or an empty tile.
C23_JumpsExact ==
    \A ck \in LivePieces :
        LET p   == pieces[ck[1]][ck[2]]
            got == getJumps(p, tiles, pieces)
        IN  /\ Range(got) = RuleJumps(p)
            /\ Len(got) = Cardinality(Range(got))
            /\ \A k \in 1 .. Len(got) :
                  /\ tiles[got[k].jumpedTile]
                  /\ ~Holds([pieces |-> pieces], p.color, got[k].jumpedTile)

C23_Witness ==
    \E ck \in LivePieces :
        LET p == pieces[ck[1]][ck[2]]
        IN  /\ Len(getJumps(p, tiles, pieces)) = 1
            /\ \E n \in Range(getPosMoves(p)) \cap TileNums :
                  /\ Holds([pieces |-> pieces], Opp(p.color), n)
                  /\ OnRim(n)

\* _getPosMoves of piece p is what the rule gives
PosMovesExact(p) ==
    LET t   == p.tilenum
        got == getPosMoves(p)
    IN  /\ \A u \in Diagonal(t) :
              /\ u \in TileNums
              /\ RowOf(u) - RowOf(t) \in {-1, 1}
              /\ ColOf(u) - ColOf(t) \in {-1, 1}
        /\ Range(got) =
              {u \in Diagonal(t) :
                  p.isKing \/ RowOf(u) = RowOf(t) + Ahead(p.color)}
        /\ Len(got) = Cardinality(Range(got))
        /\ ColOf(t) \in {0, BOARD_SIZE - 1} =>
              \A r \in {RowOf(t) - 1, RowOf(t) + 1} :
                  Cardinality({u \in Range(got) : RowOf(u) = r}) <= 1

\* C24: for BOARD_SIZE 4, 6 and 8, every colour and every tile on which a
\* man or a king of that colour can stand, _getPosMoves returns exactly the
\* tiles of the board that are diagonally adjacent, for a man only those of
\* the row ahead, each once; in a side column at most one for each row.
\* Every tile is tried when the game is made, every piece where it stands.
C24_PosMovesExact ==
    /\ Fresh =>
          \A t \in TileNums : \A c \in Colors : \A king \in BOOLEAN :
              (king \/ RowOf(t) # (IF c = BLACK THEN BOARD_SIZE - 1 ELSE 0)) =>
                  PosMovesExact([id |-> t, color |-> c, tilenum |-> t,
                                 isKing |-> king])
    /\ \A ck \in LivePieces : PosMovesExact(pieces[ck[1]][ck[2]])

C24_Witness ==
    \E ck \in LivePieces :
        LET p == pieces[ck[1]][ck[2]]
        IN  /\ p.isKing
            /\ ColOf(p.tilenum) \in {0, BOARD_SIZE - 1}
            /\ RowOf(p.tilenum) \notin {0, BOARD_SIZE - 1}
            /\ Len(getPosMoves(p)) = 2

\* C29: for BOARD_SIZE 4, 6 and 8 and every tile i, isEdgeTile(i) is true
\* exactly when i lies in row 0, in row BOARD_SIZE - 1, in board column 0
\* or in board column BOARD_SIZE - 1.
C29_EdgeTiles ==
    \A i \in TileNums : isEdgeTile(i) <=> OnRim(i)

C29_Witness ==
    \E ck \in LivePieces :
        LET p == pieces[ck[1]][ck[2]]
        IN  /\ p.id # p.tilenum
            /\ isEdgeTile(p.tilenum)
            /\ RowOf(p.tilenum) \notin {0, BOARD_SIZE - 1}
            /\ BOARD_SIZE = 8

\* C25: in every reachable state every index that getMoves and getJumps of
\* a piece pass to Board.getTile, and every index that a moveTo or jumpTo
\* of the latest turn passed to it, is a tile of the board.
C25_IndicesInRange ==
    /\ \A ck \in LivePieces :
          TileArgs(pieces[ck[1]][ck[2]], pieces) \subseteq TileNums
    /\ \A k \in 1 .. Len(turnLog) : CallArgs(turnLog[k]) \subseteq TileNums

C25_Witness ==
    \E ck \in LivePieces :
        LET p == pieces[ck[1]][ck[2]]
        IN  /\ p.isKing
            /\ RowOf(p.tilenum) \in {0, BOARD_SIZE - 1}
            /\ Len(getPosMoves(p)) = 2
            /\ TileArgs(p, pieces) # {}
            /\ turnLog # <<>>
            /\ LastHop.id = p.id
            /\ CallArgs(LastHop) \subseteq TileNums

\* the turn whose takeTurn runs or ran last has made a hop in this step
HopStep ==
    /\ turnLog' # turnLog
    /\ turnLog' # <<>>
    /\ turnLog'[Len(turnLog')].op = "jumpTo"
    /\ turnLog'[Len(turnLog')].legal

\* what one hop e of a piece of colour c changes
HopEffect(c, e) ==
    /\ Cardinality({e.from, e.jumped, e.to}) = 3
    /\ tiles[e.from] /\ tiles[e.jumped] /\ ~tiles[e.to]
    /\ ~tiles'[e.from] /\ ~tiles'[e.jumped] /\ tiles'[e.to]
    /\ \A t \in TileNums \ {e.from, e.jumped, e.to} : tiles'[t] = tiles[t]
    /\ Len(pieces'[c]) = Len(pieces[c])
    /\ \A k \in 1 .. Len(pieces[c]) :
          IF pieces[c][k].id = e.id
          THEN /\ pieces[c][k].tilenum = e.from
               /\ pieces'[c][k].tilenum = e.to
               /\ pieces'[c][k].id = e.id
               /\ pieces'[c][k].color = c
               /\ pieces[c][k].isKing => pieces'[c][k].isKing
          ELSE pieces'[c][k] = pieces[c][k]
    /\ Cardinality({k \in 1 .. Len(pieces[Opp(c)]) :
                       pieces[Opp(c)][k].tilenum = e.jumped}) = 1
    /\ Len(pieces'[Opp(c)]) = Len(pieces[Opp(c)]) - 1
    /\ Range(pieces'[Opp(c)]) =
          {q \in Range(pieces[Opp(c)]) : q.tilenum # e.jumped}

\* C26: a jumpTo with a legal jump moves the jumping piece to the end tile
\* and removes the one piece of the other side on the jumped tile; source
\* and jumped tile become free, the end tile occupied; no other tile, no
\* other piece and no king flag of another piece changes.
C26_JumpEffect ==
    [][HopStep => HopEffect(turnStart'.color, turnLog'[Len(turnLog')])]_vars

C26_Witness ==
    /\ turnLog # <<>>
    /\ LastHop.op = "jumpTo"
    /\ LastHop.legal
    /\ kind[Mover] = "cpu"
    /\ Len(pieces[Opp(Mover)]) = turnStart.oppCount - Len(turnLog)
    /\ Len(pieces[Opp(Mover)]) > 0
    /\ PieceOf(pieces, Mover, LastHop.id).tilenum = LastHop.to

C28_HasMove ==
    /\ \A c \in Colors :
          /\ hasMove(Cur, c) <=>
                \E p \in Range(pieces[c]) :
                    \/ Len(getMoves(p, tiles)) > 0
                    \/ Len(getJumps(p, tiles, pieces)) > 0
          /\ pieces[c] = <<>> => ~hasMove(Cur, c)
    /\ (TurnResolved /\ pieces[Mover] = <<>>) =>
          /\ status = Loss
          /\ pc = "done" => winner = Opp(Mover)

C28_Witness ==
    /\ pc = "done"
    /\ pieces[Mover] = <<>>
    /\ status = Loss
    /\ winner = Opp(Mover)
    /\ ~hasMove(Cur, Mover)

\* the first moveTo or jumpTo of the latest CPUPlayer.takeTurn, if it made one
FirstOfCpuTurn ==
    (/\ Mover # NoColor
     /\ kind[Mover] = "cpu"
     /\ pc \in {"loop", "done", "cpu_jumps"}
     /\ turnStart.movers # {}) =>
        /\ turnLog # <<>>
        /\ turnLog[1].legal
        /\ IF turnStart.jumpers = {}
           THEN /\ Len(turnLog) = 1
                /\ turnLog[1].op = "moveTo"
                /\ turnLog[1].id \in turnStart.movers
           ELSE /\ turnLog[1].op = "jumpTo"
                /\ turnLog[1].id \in turnStart.jumpers

\* every (piece, move) pair, or with a jump available every (piece, jump)
\* pair, of the side to move is one CPUPlayer.takeTurn can play
EveryPairPossible ==
    (/\ pc = "loop"
     /\ status # Loss
     /\ budget > 0
     /\ kind[turnColor] = "cpu") =>
        \A k \in 1 .. Len(pieces[turnColor]) :
            LET p == pieces[turnColor][k]
            IN  IF canJump(Cur, turnColor)
                THEN \A j \in Range(getJumps(p, tiles, pieces)) :
                        ENABLED (/\ CPUTakeTurn(TRUE)
                                 /\ turnLog' =
                                       <<HopEntry(Cur, turnColor, p.id, j)>>)
                ELSE \A m \in Range(getMoves(p, tiles)) :
                        ENABLED (/\ CPUTakeTurn(TRUE)
                                 /\ turnLog' =
                                       <<MoveEntry(Cur, turnColor, p.id, m)>>)

\* C30: a CPUPlayer.takeTurn without a jump available applies exactly one
\* simple move, of a piece to a tile its getMoves gave at the start of the
\* turn, and every such pair can be the one played; with a jump available
\* its first hop is one of the (piece, jump) pairs, and can be any of them.
C30_RandomAgent == FirstOfCpuTurn /\ EveryPairPossible

C30_Witness ==
    /\ Mover # NoColor
    /\ kind[Mover] = "cpu"
    /\ pc = "loop"
    /\ Cardinality(turnStart.movers) >= 2
    /\ turnStart.jumpers = {}
    /\ Len(turnLog) = 1
    /\ turnLog[1].op = "moveTo"
    /\ turnLog[1].id # CHOOSE i \in turnStart.movers :
                            \A g \in turnStart.movers : i <= g

\* the tile two rows and two columns from tile t in the direction of its
\* diagonal neighbour n is not a tile of the board
BeyondOff(t, n) ==
    \/ 2 * RowOf(n) - RowOf(t) \notin 0 .. BOARD_SIZE - 1
    \/ 2 * ColOf(n) - ColOf(t) \notin 0 .. BOARD_SIZE - 1

\* the tile two rows and two columns from tile t in the direction of n
BeyondTile(t, n) == TileAt(2 * RowOf(n) - RowOf(t), 2 * ColOf(n) - ColOf(t))

\* from tile t the edge rule and the bounds of the board agree, for every
\* diagonal neighbour of t
EdgeIsBound(t) ==
    \A n \in Diagonal(t) : isEdgeTile(n) <=> BeyondOff(t, n)

\* C31: for every piece on the board (and, when the game is made, every
\* tile) and every diagonally adjacent tile n, n is an edge tile exactly
\* when the tile two diagonal steps on in the direction of n is off the
\* board; and getJumps returns the capture over every neighbour that holds
\* an opponent's piece and whose landing tile is on the board and free, so
\* the edge rule alone rejects no such capture.
C31_EdgeRuleIsBoardBound ==
    /\ Fresh => \A t \in TileNums : EdgeIsBound(t)
    /\ \A ck \in LivePieces :
          LET p == pieces[ck[1]][ck[2]]
              t == p.tilenum
          IN  /\ EdgeIsBound(t)
              /\ \A n \in Range(getPosMoves(p)) \cap TileNums :
                    ( /\ Holds([pieces |-> pieces], Opp(p.color), n)
                      /\ ~BeyondOff(t, n)
                      /\ ~tiles[BeyondTile(t, n)] )
                    => Jump(n, BeyondTile(t, n))
                          \in Range(getJumps(p, tiles, pieces))

C31_Witness ==
    /\ \E ck \in LivePieces :
          LET p == pieces[ck[1]][ck[2]]
          IN  \E n \in Range(getPosMoves(p)) \cap TileNums :
                  /\ Holds([pieces |-> pieces], Opp(p.color), n)
                  /\ isEdgeTile(n)
                  /\ ColOf(n) \in {0, BOARD_SIZE - 1}
                  /\ RowOf(n) \notin {0, BOARD_SIZE - 1}
                  /\ getJumps(p, tiles, pieces) = <<>>
    /\ \E ck \in LivePieces :
          LET p == pieces[ck[1]][ck[2]]
          IN  \E n \in Range(getPosMoves(p)) \cap TileNums :
                  /\ Holds([pieces |-> pieces], Opp(p.color), n)
                  /\ ~BeyondOff(p.tilenum, n)
                  /\ Jump(n, BeyondTile(p.tilenum, n))
                        \in Range(getJumps(p, tiles, pieces))

\* the number of pieces a side starts with
InitialCount == HALF_BOARD_SIZE * (HALF_BOARD_SIZE - 1)

\* the number of pieces of side c
Count(c) == Len(pieces[c])

\* a step that applies a moveTo of a simple move
MoveStep ==
    /\ turnLog' # turnLog
    /\ turnLog' # <<>>
    /\ turnLog'[Len(turnLog')].op = "moveTo"

\* a step that applies a jumpTo
JumpStep ==
    /\ turnLog' # turnLog
    /\ turnLog' # <<>>
    /\ turnLog'[Len(turnLog')].op = "jumpTo"

\* no side has more pieces than it started with, and there are as many
\* occupied tiles as live pieces
CountsBounded ==
    /\ \A c \in Colors : Count(c) <= InitialCount
    /\ Cardinality({t \in TileNums : tiles[t]}) = Count(BLACK) + Count(RED)

\* what a step does to the piece counts
CountsStep ==
    /\ MoveStep => \A c \in Colors : Count(c)' = Count(c)
    /\ JumpStep => LET c == turnStart'.color
                  IN  /\ Len(pieces'[Opp(c)]) = Count(Opp(c)) - 1
                      /\ Len(pieces'[c]) = Count(c)
    /\ \A c \in Colors : Count(c)' # Count(c) => JumpStep
    /\ (\E t \in TileNums : tiles'[t] # tiles[t]) => MoveStep \/ JumpStep

\* C32: along every sequence of turns a simple move leaves the piece
\* counts of both sides, a hop lowers the count of the mover's opponent by
\* exactly one and leaves the mover's count, no other step changes a count
\* or a tile, no side ever has more than its initial (N/2)*(N/2 - 1)
\* pieces, and the number of occupied tiles is the number of live pieces.
C32_PieceConservation ==
    /\ []CountsBounded
    /\ [][CountsStep]_vars

C32_Witness ==
    /\ turnLog # <<>>
    /\ LastHop.op = "jumpTo"
    /\ Count(BLACK) < InitialCount
    /\ Count(RED) < InitialCount
    /\ Count(Opp(Mover)) > 0

\* Board._begin with the steps of the CPU's chain loop taken whenever they
\* can be: the loop is sequential code of the one thread of the game
SpecChain == Init /\ [][Next]_vars /\ WF_vars(CPUJump) /\ WF_vars(CPUReturn)

\* the number of jumpTo calls in a history
NumHops(log) == Cardinality({k \in 1 .. Len(log) : log[k].op = "jumpTo"})

\* the hops of the latest turn are the opponent's pieces that are gone
\* since the turn began
HopsAreKills ==
    ~Fresh =>
        /\ NumHops(turnLog) = turnStart.oppCount - Count(Opp(Mover))
        /\ NumHops(turnLog) <= turnStart.oppCount

\* C33: within one takeTurn of a CPUPlayer or a Player every hop removes
\* one piece of the opponent, so the turn applies at most as many hops as
\* the opponent had pieces when the turn began; and the chain loop of
\* CPUPlayer.takeTurn, once entered, is left.
C33_ChainsTerminate ==
    /\ []HopsAreKills
    /\ (pc = "cpu_jumps") ~> (pc # "cpu_jumps")

C33_Witness ==
    /\ pc # "cpu_jumps"
    /\ ~Fresh
    /\ kind[Mover] = "cpu"
    /\ NumHops(turnLog) >= 2
    /\ NumHops(turnLog) = turnStart.oppCount - Count(Opp(Mover))

\* the lists CPUPlayer.takeTurn of side c would hand to random.choice on
\* the board as it stands are not empty
ChoiceLists(c) ==
    LET b == [tiles |-> tiles, pieces |-> pieces]
    IN  /\ canJump(b, c) => JumpPairs(b, c) # <<>>
        /\ (hasMove(b, c) /\ ~canJump(b, c)) => MovePairs(b, c) # <<>>

\* C34: in every reachable state, for either side, the list of (piece,
\* jump) pairs is not empty if canJump is true and the list of (piece,
\* move) pairs is not empty if hasMove is true and canJump is false; a
\* CPUPlayer that is called with hasMove true can make its choice and play
\* it, and inside the chain loop the list given to random.choice is the one
\* the loop test found not empty.
C34_ChoiceNeverEmpty ==
    /\ \A c \in Colors : ChoiceLists(c)
    /\ (/\ pc = "loop"
        /\ status # Loss
        /\ budget > 0
        /\ kind[turnColor] = "cpu"
        /\ hasMove(Cur, turnColor)) => ENABLED CPUTakeTurn(TRUE)
    /\ pc = "cpu_jumps" =>
          (ENABLED CPUJump <=>
              getJumps(PieceOf(pieces, turnColor, cpuPiece), tiles, pieces) # <<>>)

C34_Witness ==
    /\ ~Fresh
    /\ pc = "loop"
    /\ status # Loss
    /\ kind[turnColor] = "cpu"
    /\ canJump(Cur, turnColor)
    /\ Len(JumpPairs(Cur, turnColor)) >= 2
    /\ hasMove(Cur, Opp(turnColor))
    /\ ~canJump(Cur, Opp(turnColor))
    /\ Len(MovePairs(Cur, Opp(turnColor))) >= 2

----------------------------------------------------------------------------
(* The legacy engine, src/checkers.py: one file for the 8 x 8 board.  A
   board is [tiles, pieces] as above; a jump is the tuple
   <<jumped tile, end tile>>. *)

Legacy_TILE_SIZE == 80

\* x of the centre of tile k, as the legacy Board._populate lays it out
Legacy_locX(k) ==
    LET row == k \div 4
        x0  == IF row % 2 = 0 THEN 0 ELSE Legacy_TILE_SIZE
    IN  x0 + (k % 4) * (Legacy_TILE_SIZE * 2) + Legacy_TILE_SIZE \div 2

\* y of the centre of tile k
Legacy_locY(k) ==
    (Legacy_TILE_SIZE * 8 - (k \div 4) * Legacy_TILE_SIZE)
        - Legacy_TILE_SIZE \div 2

\* Board._populate: the occupancy flags of the 32 tiles
Legacy_populate == [k \in 0 .. 31 |-> k + 1 < 13 \/ k + 1 > 20]

\* Board.getTile(tilenum).isOccupied(), with Python's negative indices
Legacy_getTile(tl, tilenum) ==
    tl[IF tilenum < 0 THEN tilenum + 32 ELSE tilenum]

\* Piece.__init__
Legacy_Piece(color, tilenum) ==
    [id |-> tilenum, color |-> color, tilenum |-> tilenum, isKing |-> FALSE]

\* Player._populate
Legacy_PlayerPopulate(color) ==
    LET startTile0 == IF color = RED THEN 20 ELSE 0
    IN  [k \in 1 .. 12 |-> Legacy_Piece(color, startTile0 + k - 1)]

\* Piece._isEdgeTile
Legacy_isEdgeTile(tilenum) ==
    ~(tilenum > 3 /\ tilenum < 28 /\ tilenum % 8 # 0 /\ tilenum % 8 # 7)

\* Piece._getPosMoves
Legacy_getPosMoves(p) ==
    LET t    == p.tilenum
        side == t % 8 = 0 \/ t % 8 = 7
        odd  == ((Legacy_locY(t) - Legacy_TILE_SIZE \div 2)
                    \div Legacy_TILE_SIZE) % 2 = 0
    IN  IF p.isKing THEN
            LET tempmoves ==
                    IF side THEN <<t - 4, t + 4>>
                    ELSE IF odd THEN <<t - 4, t - 3, t + 4, t + 5>>
                    ELSE <<t - 5, t - 4, t + 3, t + 4>>
            IN  SelectSeq(tempmoves, LAMBDA tm : tm >= 0 /\ tm <= 31)
        ELSE IF p.color = BLACK THEN
            IF side THEN <<t + 4>>
            ELSE IF odd THEN <<t + 4, t + 5>>
            ELSE <<t + 3, t + 4>>
        ELSE
            IF side THEN <<t - 4>>
            ELSE IF odd THEN <<t - 4, t - 3>>
            ELSE <<t - 5, t - 4>>

\* Piece.getMoves
Legacy_getMoves(p, tl) ==
    SelectSeq(Legacy_getPosMoves(p), LAMBDA n : ~Legacy_getTile(tl, n))

\* Piece.getJumps
Legacy_getJumps(p, tl, ps) ==
    LET neighbors == Legacy_getPosMoves(p)
        opp   == {q.tilenum : q \in Range(ps[Opp(p.color)])}
        over  == SelectSeq(neighbors, LAMBDA n : n \in opp)
        t     == p.tilenum
        to(n) == IF Legacy_locX(n) > Legacy_locX(t)
                 THEN IF Legacy_locY(n) > Legacy_locY(t) THEN t - 7 ELSE t + 9
                 ELSE IF Legacy_locY(n) > Legacy_locY(t) THEN t - 9 ELSE t + 7
        jumps0 == [k \in 1 .. Len(over) |-> <<over[k], to(over[k])>>]
    IN  SelectSeq(jumps0, LAMBDA j : ~Legacy_isEdgeTile(j[1])
                                     /\ ~Legacy_getTile(tl, j[2]))

\* Piece.moveTo with a crowning row that no man reaches
Legacy_moveTo_noCrown(b, color, id, tile) ==
    LET k  == IndexOf(b.pieces, color, id)
        p  == b.pieces[color][k]
        t1 == [b.tiles EXCEPT ![p.tilenum] = FALSE]
        t2 == [t1 EXCEPT ![tile] = TRUE]
        q  == [p EXCEPT !.tilenum = tile,
                        !.isKing = \/ p.isKing
                                   \/ color = BLACK /\ tile > 31
                                   \/ color = RED /\ tile < 0]
    IN  [tiles |-> t2, pieces |-> [b.pieces EXCEPT ![color][k] = q]]

\* Piece.moveTo
Legacy_moveTo(b, color, id, tile) ==
    LET k  == IndexOf(b.pieces, color, id)
        p  == b.pieces[color][k]
        t1 == [b.tiles EXCEPT ![p.tilenum] = FALSE]
        t2 == [t1 EXCEPT ![tile] = TRUE]
        q  == [p EXCEPT !.tilenum = tile,
                        !.isKing = \/ p.isKing
                                   \/ color = BLACK /\ tile > 27
                                   \/ color = RED /\ tile < 4]
    IN  [tiles |-> t2, pieces |-> [b.pieces EXCEPT ![color][k] = q]]

\* Player.killPiece
Legacy_killPiece(b, color, tilenum) ==
    [b EXCEPT !.pieces[color] = RemoveFirstAt(b.pieces[color], tilenum)]

\* Piece.jumpTo
Legacy_jumpTo(b, color, id, jump) ==
    LET b1 == Legacy_moveTo(b, color, id, jump[2])
        b2 == Legacy_killPiece(b1, Opp(color), jump[1])
    IN  [b2 EXCEPT !.tiles[jump[1]] = FALSE]

\* Player._canJump
Legacy_canJump(b, color) ==
    \E k \in 1 .. Len(b.pieces[color]) :
        Len(Legacy_getJumps(b.pieces[color][k], b.tiles, b.pieces)) > 0

\* Player._noMoves
Legacy_noMoves(b, color) ==
    ~\E k \in 1 .. Len(b.pieces[color]) :
        \/ Len(Legacy_getMoves(b.pieces[color][k], b.tiles)) > 0
        \/ Len(Legacy_getJumps(b.pieces[color][k], b.tiles, b.pieces)) > 0

\* CPUPlayer.takeTurn up to its while loop, for a side that has a move:
\* for every pair random.choice can return, the board after it is played,
\* the piece that played it and whether the while loop is entered
Legacy_takeTurn(b, color) ==
    LET ps == b.pieces[color]
    IN  IF Legacy_canJump(b, color) THEN
            UNION {{LET a == Legacy_jumpTo(b, color, ps[k].id, j)
                    IN  [board |-> a, id |-> ps[k].id,
                         loop |-> ~(PieceOf(a.pieces, color, ps[k].id).isKing
                                    /\ ~ps[k].isKing)] :
                       j \in Range(Legacy_getJumps(ps[k], b.tiles, b.pieces))} :
                   k \in 1 .. Len(ps)}
        ELSE
            UNION {{[board |-> Legacy_moveTo(b, color, ps[k].id, m),
                     id |-> ps[k].id, loop |-> FALSE] :
                       m \in Range(Legacy_getMoves(ps[k], b.tiles))} :
                   k \in 1 .. Len(ps)}

\* CPUPlayer.takeTurn: the boards one iteration of the while loop can give
Legacy_takeTurnLoop(b, color, id) ==
    {Legacy_jumpTo(b, color, id, j) :
        j \in Range(Legacy_getJumps(PieceOf(b.pieces, color, id),
                                   b.tiles, b.pieces))}

\* A simulated game (players = 0) with BOARD_SIZE = 8 after its 37th turn,
\* Red to move.  The turns that lead here from the starting layout, Black
\* first:
\*   11-14, 20-17, 9-12, 22-19, 12-16, 17-12, 8x12-17, 21x17-12, 4-8, 24-20,
\*   8x12-17x20-24, 27-22, 10-13, 19x14-10, 5x10-14, 26-21, 1-5, 21-17,
\*   13x17-20, 31-27, 6-11, 22-18, 14x18-21, 25x21-18, 0-4, 29-25, 20x25-29,
\*   30-26, 29x26-22x18-13, 28-25, 16-20, 25x20-16, 3-6, 27-22, 11-14, 22-19,
\*   13-17
MidGame8 ==
    /\ Local
    /\ tiles = [k \in 0 .. 31 |-> k \in {2, 4, 5, 6, 7, 14, 16, 17, 19, 23, 24}]
    /\ pieces =
         [c \in Colors |->
            IF c = BLACK
            THEN << [id |-> 0, color |-> BLACK, tilenum |-> 4, isKing |-> FALSE],
                    [id |-> 1, color |-> BLACK, tilenum |-> 5, isKing |-> FALSE],
                    [id |-> 2, color |-> BLACK, tilenum |-> 2, isKing |-> FALSE],
                    [id |-> 3, color |-> BLACK, tilenum |-> 6, isKing |-> FALSE],
                    [id |-> 4, color |-> BLACK, tilenum |-> 24, isKing |-> FALSE],
                    [id |-> 6, color |-> BLACK, tilenum |-> 14, isKing |-> FALSE],
                    [id |-> 7, color |-> BLACK, tilenum |-> 7, isKing |-> FALSE],
                    [id |-> 10, color |-> BLACK, tilenum |-> 17, isKing |-> TRUE] >>
            ELSE << [id |-> 23, color |-> RED, tilenum |-> 23, isKing |-> FALSE],
                    [id |-> 28, color |-> RED, tilenum |-> 16, isKing |-> FALSE],
                    [id |-> 31, color |-> RED, tilenum |-> 19, isKing |-> FALSE] >>]
    /\ turnColor = RED
    /\ status = NoResult
    /\ turnLog = << [op |-> "moveTo", id |-> 10, from |-> 13, to |-> 17,
                     jumped |-> -1, wasKing |-> TRUE, isKing |-> TRUE,
                     legal |-> TRUE] >>
    /\ turnStart = [color |-> BLACK, movers |-> {0, 1, 3, 4, 6, 7, 10},
                    jumpers |-> {}, oppCount |-> 3]
    /\ Idle

\* A simulated game with BOARD_SIZE = 8 after its 48th turn, Black to move:
\*   10-14, 20-17, 8-12, 17x12-8, 14-19, 23x19-14, 11x14-18, 22x18-13,
\*   9x13-18, 21x18-14, 6-10, 14-11, 7x11-14, 27-23, 3-6, 31-27, 14-19,
\*   23x19-14, 10x14-19, 27-23, 4-9, 23x19-14, 9-13, 30-27, 5-10, 14x10-5,
\*   2x5-9, 27-23, 6-10, 25-21, 1-4, 8x4-1, 0-4, 1x4-8, 10-14, 21-17,
\*   13x17-20, 24x20-17, 14-19, 23x19-14, 9-12, 28-24, 12x17-21x26-30, 29-25,
\*   30-26, 14-11, 26-29, 11-7
LateGame8 ==
    /\ Local
    /\ tiles = [k \in 0 .. 31 |-> k \in {7, 8, 24, 25, 29}]
    /\ pieces =
         [c \in Colors |->
            IF c = BLACK
            THEN << [id |-> 2, color |-> BLACK, tilenum |-> 29, isKing |-> TRUE] >>
            ELSE << [id |-> 20, color |-> RED, tilenum |-> 8, isKing |-> TRUE],
                    [id |-> 28, color |-> RED, tilenum |-> 24, isKing |-> FALSE],
                    [id |-> 29, color |-> RED, tilenum |-> 25, isKing |-> FALSE],
                    [id |-> 30, color |-> RED, tilenum |-> 7, isKing |-> FALSE] >>]
    /\ turnColor = BLACK
    /\ status = NoResult
    /\ turnLog = << [op |-> "moveTo", id |-> 30, from |-> 11, to |-> 7,
                     jumped |-> -1, wasKing |-> FALSE, isKing |-> FALSE,
                     legal |-> TRUE] >>
    /\ turnStart = [color |-> RED, movers |-> {20, 28, 29, 30},
                    jumpers |-> {}, oppCount |-> 1]
    /\ Idle

\* games on the 8 x 8 board, the one board the legacy engine has: from the
\* starting layout with every choice of players, and simulated games from
\* MidGame8 and LateGame8
InitLegacy ==
    /\ BOARD_SIZE = 8
    /\ \/ kind \in Kinds /\ NewGame
       \/ kind = [c \in Colors |-> "cpu"] /\ (MidGame8 \/ LateGame8)
    /\ NoSims

SpecLegacy == InitLegacy /\ [][Next]_vars

\* the board of the game as the legacy engine holds it
Here == [tiles |-> tiles, pieces |-> pieces]

\* the legacy jump tuples as Jump records
AsJumps(js) == [k \in 1 .. Len(js) |-> Jump(js[k][1], js[k][2])]

\* the two engines lay out the same tiles and the same pieces
SameLayout ==
    /\ PopulateTiles = Legacy_populate
    /\ \A c \in Colors : PopulatePieces(c) = Legacy_PlayerPopulate(c)
    /\ Fresh => /\ tiles = Legacy_populate
                /\ \A c \in Colors : pieces[c] = Legacy_PlayerPopulate(c)

\* the two engines answer every query alike: for every piece where it
\* stands, and for a man and a king of either colour on every tile when the
\* game is made
SameQueries ==
    /\ \A ck \in LivePieces :
          LET p == pieces[ck[1]][ck[2]]
          IN  /\ getPosMoves(p) = Legacy_getPosMoves(p)
              /\ getMoves(p, tiles) = Legacy_getMoves(p, tiles)
              /\ getJumps(p, tiles, pieces)
                    = AsJumps(Legacy_getJumps(p, tiles, pieces))
              /\ \A n \in Range(getPosMoves(p)) :
                    isEdgeTile(n) <=> Legacy_isEdgeTile(n)
    /\ \A c \in Colors :
          /\ hasMove(Here, c) <=> ~Legacy_noMoves(Here, c)
          /\ canJump(Here, c) <=> Legacy_canJump(Here, c)
    /\ Fresh =>
          \A t \in TileNums :
              /\ isEdgeTile(t) <=> Legacy_isEdgeTile(t)
              /\ locX(t) = Legacy_locX(t) /\ locY(t) = Legacy_locY(t)
              /\ \A c \in Colors : \A king \in BOOLEAN :
                    LET p == [id |-> t, color |-> c, tilenum |-> t,
                              isKing |-> king]
                    IN  getPosMoves(p) = Legacy_getPosMoves(p)

\* every moveTo and jumpTo the packaged engine applies leaves the board
\* that the legacy moveTo and jumpTo give, the king flags included
SameEffect ==
    LET e == turnLog'[Len(turnLog')]
        c == turnStart'.color
    IN  /\ MoveStep =>
              [tiles |-> tiles', pieces |-> pieces']
                  = Legacy_moveTo(Here, c, e.id, e.to)
        /\ JumpStep =>
              [tiles |-> tiles', pieces |-> pieces']
                  = Legacy_jumpTo(Here, c, e.id, <<e.jumped, e.to>>)

\* a step in which takeTurn of a CPUPlayer is called
CpuCall ==
    /\ pc = "loop"
    /\ status # Loss
    /\ kind[turnColor] = "cpu"
    /\ turnStart' = StartRecord(Here, turnColor)
    /\ budget' = budget - 1

\* every step of the packaged CPUPlayer.takeTurn is one the legacy
\* CPUPlayer.takeTurn can take
CpuStepsLegacy ==
    /\ CpuCall =>
          IF Legacy_noMoves(Here, turnColor)
          THEN status' = Loss /\ tiles' = tiles /\ pieces' = pieces
          ELSE /\ status' # Loss
               /\ \E r \in Legacy_takeTurn(Here, turnColor) :
                     /\ r.board = [tiles |-> tiles', pieces |-> pieces']
                     /\ r.loop <=> pc' = "cpu_jumps"
                     /\ r.loop => cpuPiece' = r.id
    /\ (pc = "cpu_jumps" /\ pc' = "cpu_jumps" /\ turnLog' # turnLog) =>
          /\ [tiles |-> tiles', pieces |-> pieces']
                \in Legacy_takeTurnLoop(Here, turnColor, cpuPiece)
          /\ cpuPiece' = cpuPiece
    /\ (pc = "cpu_jumps" /\ pc' # "cpu_jumps") =>
          /\ Legacy_takeTurnLoop(Here, turnColor, cpuPiece) = {}
          /\ tiles' = tiles /\ pieces' = pieces

\* every step the legacy CPUPlayer.takeTurn can take is one of the packaged
\* CPUPlayer.takeTurn
LegacyStepsCpu ==
    /\ (/\ pc = "loop"
        /\ status # Loss
        /\ budget > 0
        /\ kind[turnColor] = "cpu") =>
          IF Legacy_noMoves(Here, turnColor)
          THEN ENABLED TakeTurnLoss(TRUE)
          ELSE \A r \in Legacy_takeTurn(Here, turnColor) :
                  ENABLED (/\ CPUTakeTurn(TRUE)
                           /\ tiles' = r.board.tiles
                           /\ pieces' = r.board.pieces
                           /\ pc' = IF r.loop THEN "cpu_jumps" ELSE "loop")
    /\ pc = "cpu_jumps" =>
          IF Legacy_takeTurnLoop(Here, turnColor, cpuPiece) = {}
          THEN ENABLED CPUReturn
          ELSE \A a \in Legacy_takeTurnLoop(Here, turnColor, cpuPiece) :
                  ENABLED (CPUJump /\ tiles' = a.tiles /\ pieces' = a.pieces)

\* C35: on the 8 x 8 board the legacy engine and the packaged engine lay
\* out the same tiles and pieces; in every reachable position getMoves and
\* getJumps of every piece, the edge test, hasMove and canJump agree; every
\* moveTo and jumpTo has the effect of the legacy one, promotion included;
\* and the turn of a CPUPlayer has the same steps in both, so the same set
\* of possible resulting positions.
C35_LegacyEquivalent ==
    /\ [](SameLayout /\ SameQueries /\ LegacyStepsCpu)
    /\ [][SameEffect /\ CpuStepsLegacy]_vars

C35_Witness ==
    /\ BOARD_SIZE = 8
    /\ ~Fresh
    /\ kind[Mover] = "cpu"
    /\ pc = "loop"
    /\ NumHops(turnLog) >= 2
    /\ \E ck \in LivePieces :
          LET p == pieces[ck[1]][ck[2]]
          IN  /\ p.isKing
              /\ p.id = LastHop.id
              /\ ~LastHop.wasKing
              /\ p.tilenum = LastHop.to
              /\ Legacy_getPosMoves(p) # <<>>

====
